---- MODULE Spec2Model ----
(***************************************************************************)
(* llmpole: the hardware-fit engine (package pole), the model record's     *)
(* derived quantities (package models) and the ranking of fit results.     *)
(*                                                                         *)
(* Number representation.  The Go code computes in float64; the model      *)
(* computes in fixed point with integers:                                  *)
(*   memory            millionths of a GB    (1 GB = MicroGB)              *)
(*   parameter counts  millions of parameters; ParamsB() in thousandths    *)
(*                     of a billion                                        *)
(*   bytes/parameter, speed multipliers, weights   hundredths              *)
(*   tokens/sec, sub-scores                        thousandths             *)
(*   composite score                               tenths                  *)
(* A division that is not exact is rounded down to the unit.  Strings the  *)
(* code searches or parses are sequences of one-character strings.         *)
(* A Go pointer field is <<>> when nil and <<v>> when it points to v.      *)
(***************************************************************************)
EXTENDS Integers, Sequences, FiniteSets, TLC

VARIABLES
  model,    \* the model record under analysis
  system,   \* the hardware snapshot
  goarch,   \* runtime.GOARCH of the build
  fit,      \* Nil, or Some(the ModelFit Analyze returned)
  models,   \* AnalyzeAll's argument: the sequence of model records
  pc,       \* pc[i]: where the call Analyze(models[i], system) stands
  frames,   \* frames[i]: the local variables of a call of Analyze
  results,  \* results[i]: Nil, or Some(what Analyze(models[i], system) returned)
  fits,     \* RankModelsByFit's argument
  ranked,   \* Nil, or Some(the slice RankModelsByFit returned)
  call,     \* the arguments of a call of one of the pure functions
  ret,      \* Nil, or Some(what that call returned)
  probe     \* what the platform's GPU and memory probes answer to Detect

fitVars == <<model, fit>>

allVars == <<models, pc, frames, results>>

rankVars == <<fits, ranked>>

callVars == <<call, ret>>

vars == <<model, system, goarch, fit, models, pc, frames, results, fits, ranked,
          call, ret, probe>>

MicroGB == 1000 * 1000

Nil == <<>>

Some(v) == <<v>>

Deref(p) == p[1]

Max(a, b) == IF a >= b THEN a ELSE b

Min(a, b) == IF a <= b THEN a ELSE b

(* <<q, r>> with a * b = q * c + r and 0 <= r < c, for a, b >= 0 and       *)
(* 0 < c <= 2^30, without forming the product a * b.                       *)
RECURSIVE MulDivQR(_, _, _)
MulDivQR(a, b, c) ==
  IF b = 0 THEN <<0, 0>>
  ELSE LET h   == MulDivQR(a, b \div 2, c)
           r2  == 2 * h[2]
           add == IF b % 2 = 1 THEN a ELSE 0
           r3  == (r2 % c) + (add % c)
       IN  <<2 * h[1] + (r2 \div c) + (add \div c) + (r3 \div c), r3 % c>>

(* floor(a * b / c) *)
MulDiv(a, b, c) == MulDivQR(a, b, c)[1]

-----------------------------------------------------------------------------
(* strings *)

LowerLetters == <<"a","b","c","d","e","f","g","h","i","j","k","l","m",
                  "n","o","p","q","r","s","t","u","v","w","x","y","z">>

UpperLetters == <<"A","B","C","D","E","F","G","H","I","J","K","L","M",
                  "N","O","P","Q","R","S","T","U","V","W","X","Y","Z">>

Digits == <<"0","1","2","3","4","5","6","7","8","9">>

IndexIn(c, t) == IF \E i \in 1..Len(t) : t[i] = c
                 THEN CHOOSE i \in 1..Len(t) : t[i] = c
                 ELSE 0

ToLower(s) == [i \in 1..Len(s) |->
                 IF IndexIn(s[i], UpperLetters) > 0
                 THEN LowerLetters[IndexIn(s[i], UpperLetters)] ELSE s[i]]

ToUpper(s) == [i \in 1..Len(s) |->
                 IF IndexIn(s[i], LowerLetters) > 0
                 THEN UpperLetters[IndexIn(s[i], LowerLetters)] ELSE s[i]]

(* strings.Contains *)
Contains(s, sub) ==
  \E i \in 0..(Len(s) - Len(sub)) :
     \A j \in 1..Len(sub) : s[i + j] = sub[j]

(* strings.TrimSpace, for the space character *)
RECURSIVE TrimSpace(_)
TrimSpace(s) ==
  IF s = <<>> THEN s
  ELSE IF Head(s) = " " THEN TrimSpace(Tail(s))
  ELSE IF s[Len(s)] = " " THEN TrimSpace(SubSeq(s, 1, Len(s) - 1))
  ELSE s

(* strings.HasSuffix for a one-character suffix *)
HasSuffix(s, c) == Len(s) > 0 /\ s[Len(s)] = c

IsDigit(c) == IndexIn(c, Digits) > 0

DigitVal(c) == IndexIn(c, Digits) - 1

RECURSIVE DigitsValue(_)
DigitsValue(s) == IF s = <<>> THEN 0
                  ELSE 10 * DigitsValue(SubSeq(s, 1, Len(s) - 1)) + DigitVal(s[Len(s)])

(* strconv.ParseFloat(s, 64), in thousandths, on the decimal forms         *)
(* [+-]digits[.digits] and [+-].digits, and on texts that are a syntax     *)
(* error, for which ParseFloat returns 0.  The forms with an exponent, a   *)
(* base prefix, underscores, "inf" or "nan" are not modelled: no text      *)
(* parsed in this module holds the letters e, p, x, i, n or an underscore. *)
ParseFloat(s) ==
  LET signed == Len(s) > 0 /\ s[1] \in {"+", "-"}
      body   == IF signed THEN Tail(s) ELSE s
      dot    == IndexIn(".", body)
      ip     == IF dot = 0 THEN body ELSE SubSeq(body, 1, dot - 1)
      fp     == IF dot = 0 THEN <<>> ELSE SubSeq(body, dot + 1, Len(body))
      ok     == /\ \A i \in 1..Len(ip) : IsDigit(ip[i])
                /\ \A i \in 1..Len(fp) : IsDigit(fp[i])
                /\ Len(ip) + Len(fp) > 0
      fp3    == [i \in 1..3 |-> IF i <= Len(fp) THEN fp[i] ELSE "0"]
      mag    == 1000 * DigitsValue(ip) + DigitsValue(fp3)
  IN  IF ~ok THEN [ok |-> FALSE, val |-> 0]
      ELSE [ok |-> TRUE, val |-> IF signed /\ s[1] = "-" THEN 0 - mag ELSE mag]

-----------------------------------------------------------------------------
(* package models: the quantization catalog *)

QuantHierarchy == <<"Q8_0", "Q6_K", "Q5_K_M", "Q4_K_M", "Q3_K_M", "Q2_K">>

(* bytes per parameter, in hundredths *)
QuantBPP(quant) ==
  CASE quant = "F32" -> 400
    [] quant \in {"F16", "BF16"} -> 200
    [] quant = "Q8_0" -> 105
    [] quant = "Q6_K" -> 80
    [] quant = "Q5_K_M" -> 68
    [] quant \in {"Q4_K_M", "Q4_0"} -> 58
    [] quant = "Q3_K_M" -> 48
    [] quant = "Q2_K" -> 37
    [] OTHER -> 58

(* QuantSpeedMultiplier with the multiplier of Q4_K_M as its default *)
QuantSpeedMultiplierMidTier(quant) ==
  CASE quant \in {"F16", "BF16"} -> 60
    [] quant = "Q8_0" -> 80
    [] quant = "Q6_K" -> 95
    [] quant = "Q5_K_M" -> 100
    [] quant \in {"Q4_K_M", "Q4_0"} -> 115
    [] quant = "Q3_K_M" -> 125
    [] quant = "Q2_K" -> 135
    [] OTHER -> 115

(* speed multiplier, in hundredths *)
QuantSpeedMultiplier(quant) ==
  CASE quant \in {"F16", "BF16"} -> 60
    [] quant = "Q8_0" -> 80
    [] quant = "Q6_K" -> 95
    [] quant = "Q5_K_M" -> 100
    [] quant \in {"Q4_K_M", "Q4_0"} -> 115
    [] quant = "Q3_K_M" -> 125
    [] quant = "Q2_K" -> 135
    [] OTHER -> 100

(* quality penalty, in points *)
QuantQualityPenalty(quant) ==
  CASE quant \in {"F16", "BF16", "Q8_0"} -> 0
    [] quant = "Q6_K" -> 0 - 1
    [] quant = "Q5_K_M" -> 0 - 2
    [] quant \in {"Q4_K_M", "Q4_0"} -> 0 - 5
    [] quant = "Q3_K_M" -> 0 - 8
    [] quant = "Q2_K" -> 0 - 12
    [] OTHER -> 0 - 5

-----------------------------------------------------------------------------
(* package models: derived quantities of a model record *)

(* ParamsB, in thousandths of a billion.  ParametersRaw counts millions of *)
(* parameters, so raw / 1e9 is raw thousandths of a billion.               *)
ParamsB(m) ==
  IF m.ParametersRaw # Nil THEN Deref(m.ParametersRaw)
  ELSE LET s == TrimSpace(ToUpper(m.ParameterCount))
       IN  IF HasSuffix(s, "B")
           THEN ParseFloat(TrimSpace(SubSeq(s, 1, Len(s) - 1))).val
           ELSE IF HasSuffix(s, "M")
           THEN ParseFloat(TrimSpace(SubSeq(s, 1, Len(s) - 1))).val \div 1000
           ELSE 7000

(* params * bpp + 0.000008 * params * ctx + 0.5, in millionths of a GB *)
EstimateMemoryGB(m, quant, ctx) ==
  LET bpp      == QuantBPP(quant)
      params   == ParamsB(m)
      modelMem == params * bpp * 10
      kvCache  == (params \div 125) * ctx + ((params % 125) * ctx) \div 125
      overhead == MicroGB \div 2
  IN  modelMem + kvCache + overhead

(* ScanQuants keeping the most compressed quantization that fits *)
RECURSIVE ScanQuantsFromWorst(_, _, _, _)
ScanQuantsFromWorst(m, budgetGB, ctx, i) ==
  IF i > Len(QuantHierarchy) THEN <<>>
  ELSE IF ScanQuantsFromWorst(m, budgetGB, ctx, i + 1) # <<>>
       THEN ScanQuantsFromWorst(m, budgetGB, ctx, i + 1)
       ELSE IF EstimateMemoryGB(m, QuantHierarchy[i], ctx) <= budgetGB
            THEN <<QuantHierarchy[i], EstimateMemoryGB(m, QuantHierarchy[i], ctx)>>
            ELSE <<>>

(* the first quantization of QuantHierarchy from position i on whose       *)
(* estimate at ctx is within the budget: <<quant, mem>>, or <<>> if none   *)
RECURSIVE ScanQuants(_, _, _, _)
ScanQuants(m, budgetGB, ctx, i) ==
  IF i > Len(QuantHierarchy) THEN <<>>
  ELSE LET mem == EstimateMemoryGB(m, QuantHierarchy[i], ctx)
       IN  IF mem <= budgetGB THEN <<QuantHierarchy[i], mem>>
           ELSE ScanQuants(m, budgetGB, ctx, i + 1)

(* BestQuantForBudget's result: the first pass, else the pass at half the  *)
(* context, else the model's own quantization                              *)
firstFound(first, second, fallback) ==
  IF first # <<>> THEN first
  ELSE IF second # <<>> THEN second
  ELSE fallback

(* BestQuantForBudget retrying at max(ctx/2, 1024) whatever the context *)
BestQuantForBudgetFloor(m, budgetGB, ctx) ==
  firstFound(ScanQuants(m, budgetGB, ctx, 1),
             ScanQuants(m, budgetGB, Max(ctx \div 2, 1024), 1),
             <<m.Quantization, EstimateMemoryGB(m, m.Quantization, ctx)>>)

(* BestQuantForBudget falling back to the estimate at the halved context *)
BestQuantForBudgetHalfFallback(m, budgetGB, ctx) ==
  firstFound(ScanQuants(m, budgetGB, ctx, 1),
             IF ctx \div 2 >= 1024 THEN ScanQuants(m, budgetGB, ctx \div 2, 1) ELSE <<>>,
             <<m.Quantization, EstimateMemoryGB(m, m.Quantization, ctx \div 2)>>)

BestQuantForBudget(m, budgetGB, ctx) ==
  firstFound(ScanQuants(m, budgetGB, ctx, 1),
             IF ctx \div 2 >= 1024 THEN ScanQuants(m, budgetGB, ctx \div 2, 1) ELSE <<>>,
             <<m.Quantization, EstimateMemoryGB(m, m.Quantization, ctx)>>)

quantBPP(m) == QuantBPP(m.Quantization)

(* activeParams * bpp / 2^30 * 1.1, at least 0.5: with activeParams in     *)
(* millions and bpp in hundredths the bytes are a * bpp * 10^4, and        *)
(* 10^4 * 10^6 / 2^30 = 5^10 / 2^20.  Nil unless MoE with known active     *)
(* parameters.                                                             *)
MoeActiveVRAMGB(m) ==
  IF ~m.IsMoE \/ m.ActiveParameters = Nil THEN Nil
  ELSE LET activeParams == Deref(m.ActiveParameters)
           bpp          == quantBPP(m)
           v            == MulDiv(activeParams * bpp * 11, 9765625, 10 * 1048576)
       IN  Some(Max(v, MicroGB \div 2))

MoeOffloadedRAMGB(m) ==
  IF ~m.IsMoE \/ m.ActiveParameters = Nil \/ m.ParametersRaw = Nil THEN Nil
  ELSE LET active   == Deref(m.ActiveParameters)
           total    == Deref(m.ParametersRaw)
           inactive == total - active
       IN  IF inactive <= 0 THEN Some(0)
           ELSE Some(MulDiv(inactive * quantBPP(m), 9765625, 1048576))

-----------------------------------------------------------------------------
(* package models: use-case classification *)

UseCaseGeneral == "General"

UseCaseCoding == "Coding"

UseCaseReasoning == "Reasoning"

UseCaseChat == "Chat"

UseCaseMultimodal == "Multimodal"

UseCaseEmbedding == "Embedding"

(* UseCaseFromModel with the test for coding ahead of the one for embedding *)
UseCaseFromModelCodingFirst(m) ==
  LET name == ToLower(m.Name)
      uc   == ToLower(m.UseCase)
  IN  IF Contains(name, <<"c","o","d","e">>) \/ Contains(uc, <<"c","o","d","e">>)
      THEN UseCaseCoding
      ELSE IF \/ Contains(uc, <<"e","m","b","e","d","d","i","n","g">>)
              \/ Contains(name, <<"e","m","b","e","d">>)
              \/ Contains(name, <<"b","g","e">>)
      THEN UseCaseEmbedding
      ELSE IF \/ Contains(uc, <<"v","i","s","i","o","n">>)
              \/ Contains(uc, <<"m","u","l","t","i","m","o","d","a","l">>)
      THEN UseCaseMultimodal
      ELSE IF \/ Contains(uc, <<"r","e","a","s","o","n">>)
              \/ Contains(uc, <<"c","h","a","i","n","-","o","f","-","t","h","o","u","g","h","t">>)
              \/ Contains(name, <<"d","e","e","p","s","e","e","k","-","r","1">>)
      THEN UseCaseReasoning
      ELSE IF \/ Contains(uc, <<"c","h","a","t">>)
              \/ Contains(uc, <<"i","n","s","t","r","u","c","t","i","o","n">>)
      THEN UseCaseChat
      ELSE UseCaseGeneral

UseCaseFromModel(m) ==
  LET name == ToLower(m.Name)
      uc   == ToLower(m.UseCase)
  IN  IF \/ Contains(uc, <<"e","m","b","e","d","d","i","n","g">>)
         \/ Contains(name, <<"e","m","b","e","d">>)
         \/ Contains(name, <<"b","g","e">>)
      THEN UseCaseEmbedding
      ELSE IF Contains(name, <<"c","o","d","e">>) \/ Contains(uc, <<"c","o","d","e">>)
      THEN UseCaseCoding
      ELSE IF \/ Contains(uc, <<"v","i","s","i","o","n">>)
              \/ Contains(uc, <<"m","u","l","t","i","m","o","d","a","l">>)
      THEN UseCaseMultimodal
      ELSE IF \/ Contains(uc, <<"r","e","a","s","o","n">>)
              \/ Contains(uc, <<"c","h","a","i","n","-","o","f","-","t","h","o","u","g","h","t">>)
              \/ Contains(name, <<"d","e","e","p","s","e","e","k","-","r","1">>)
      THEN UseCaseReasoning
      ELSE IF \/ Contains(uc, <<"c","h","a","t">>)
              \/ Contains(uc, <<"i","n","s","t","r","u","c","t","i","o","n">>)
      THEN UseCaseChat
      ELSE UseCaseGeneral

-----------------------------------------------------------------------------
(* package hardware: backends *)

BackendCuda == "CUDA"

BackendMetal == "Metal"

BackendRocm == "ROCm"

BackendVulkan == "Vulkan"

BackendSycl == "SYCL"

BackendCpuArm == "CPU (ARM)"

BackendCpuX86 == "CPU (x86)"

-----------------------------------------------------------------------------
(* package pole: fit analysis *)

FitPerfect == "Perfect"

FitGood == "Good"

FitMarginal == "Marginal"

FitTooTight == "Too Tight"

RunModeGpu == "GPU"

RunModeMoeOffload == "MoE"

RunModeCpuOffload == "CPU+GPU"

RunModeCpuOnly == "CPU"

(* one entry of ModelFit.Notes: the format string and its arguments *)
Note(text, args) == [text |-> text, args |-> args]

(* cpuPath reporting the total RAM as available *)
cpuPathTotalRAM(m, sys, notes) ==
  [runMode      |-> RunModeCpuOnly,
   memRequired  |-> m.MinRAMGB,
   memAvailable |-> sys.TotalRAMGB,
   notes        |-> notes \o <<Note("CPU-only: model loaded into system RAM", <<>>)>>]

cpuPath(m, sys, notes) ==
  [runMode      |-> RunModeCpuOnly,
   memRequired  |-> m.MinRAMGB,
   memAvailable |-> sys.AvailableRAMGB,
   notes        |-> notes
                    \o <<Note("CPU-only: model loaded into system RAM", <<>>)>>
                    \o (IF m.IsMoE
                        THEN <<Note("MoE architecture, but expert offloading requires a GPU", <<>>)>>
                        ELSE <<>>)]

(* moeOffloadPath reporting the full min VRAM as required in MoE-offload mode *)
moeOffloadPathFullVram(m, sys, systemVram, totalVram, notes) ==
  LET moeVram   == MoeActiveVRAMGB(m)
      offload   == MoeOffloadedRAMGB(m)
      offloadGB == IF offload # Nil THEN Deref(offload) ELSE 0
  IN  IF moeVram # Nil /\ Deref(moeVram) <= systemVram /\ offloadGB <= sys.AvailableRAMGB
      THEN [runMode |-> RunModeMoeOffload, memRequired |-> totalVram,
            memAvailable |-> systemVram, notes |-> notes]
      ELSE IF m.MinRAMGB <= sys.AvailableRAMGB
      THEN [runMode |-> RunModeCpuOffload, memRequired |-> m.MinRAMGB,
            memAvailable |-> sys.AvailableRAMGB, notes |-> notes]
      ELSE [runMode |-> RunModeGpu, memRequired |-> totalVram,
            memAvailable |-> systemVram, notes |-> notes]

(* moeOffloadPath reporting the active VRAM (the note's figure) as required *)
(* when neither the split nor the full model fits                          *)
moeOffloadPathActiveWhenInsufficient(m, sys, systemVram, totalVram, notes) ==
  LET moeVram   == MoeActiveVRAMGB(m)
      offload   == MoeOffloadedRAMGB(m)
      offloadGB == IF offload # Nil THEN Deref(offload) ELSE 0
      mav       == IF moeVram # Nil THEN Deref(moeVram) ELSE totalVram
  IN  IF moeVram # Nil /\ Deref(moeVram) <= systemVram /\ offloadGB <= sys.AvailableRAMGB
      THEN [runMode |-> RunModeMoeOffload, memRequired |-> Deref(moeVram),
            memAvailable |-> systemVram, notes |-> notes]
      ELSE IF m.MinRAMGB <= sys.AvailableRAMGB
      THEN [runMode |-> RunModeCpuOffload, memRequired |-> m.MinRAMGB,
            memAvailable |-> sys.AvailableRAMGB, notes |-> notes]
      ELSE [runMode |-> RunModeGpu, memRequired |-> mav,
            memAvailable |-> systemVram, notes |-> notes]

moeOffloadPath(m, sys, systemVram, totalVram, notes) ==
  LET moeVram   == MoeActiveVRAMGB(m)
      offload   == MoeOffloadedRAMGB(m)
      offloadGB == IF offload # Nil THEN Deref(offload) ELSE 0
      ne        == IF m.ActiveExperts # Nil THEN Deref(m.ActiveExperts) ELSE 0
      nn        == IF m.NumExperts # Nil THEN Deref(m.NumExperts) ELSE 0
      mav       == IF MoeActiveVRAMGB(m) # Nil THEN Deref(MoeActiveVRAMGB(m)) ELSE totalVram
  IN  IF moeVram # Nil /\ Deref(moeVram) <= systemVram /\ offloadGB <= sys.AvailableRAMGB
      THEN [runMode      |-> RunModeMoeOffload,
            memRequired  |-> Deref(moeVram),
            memAvailable |-> systemVram,
            notes        |-> notes
                 \o <<Note("MoE: %d/%d experts active in VRAM (%.1f GB)", <<ne, nn, Deref(moeVram)>>),
                      Note("Inactive experts offloaded to system RAM (%.1f GB)", <<offloadGB>>)>>]
      ELSE IF m.MinRAMGB <= sys.AvailableRAMGB
      THEN [runMode      |-> RunModeCpuOffload,
            memRequired  |-> m.MinRAMGB,
            memAvailable |-> sys.AvailableRAMGB,
            notes        |-> notes
                 \o <<Note("MoE: insufficient VRAM for expert offloading", <<>>),
                      Note("Spilling entire model to system RAM", <<>>),
                      Note("Performance will be significantly reduced", <<>>)>>]
      ELSE [runMode      |-> RunModeGpu,
            memRequired  |-> totalVram,
            memAvailable |-> systemVram,
            notes        |-> notes
                 \o <<Note("Insufficient VRAM and system RAM", <<>>),
                      Note("Need %.1f GB VRAM (full) or %.1f GB (MoE offload) + RAM",
                           <<totalVram, mav>>)>>]

(* scoreFit testing the 1.2 headroom before the recommended threshold *)
scoreFitGoodFirst(memRequired, memAvailable, recommended, runMode) ==
  IF memRequired > memAvailable THEN FitTooTight
  ELSE IF runMode = RunModeCpuOnly THEN FitMarginal
  ELSE IF memAvailable * 10 >= memRequired * 12 THEN FitGood
  ELSE IF runMode = RunModeGpu /\ recommended <= memAvailable THEN FitPerfect
  ELSE FitMarginal

(* scoreFit letting the headroom upgrade a CPU-only result *)
scoreFitCpuUpgrade(memRequired, memAvailable, recommended, runMode) ==
  IF memRequired > memAvailable THEN FitTooTight
  ELSE IF runMode = RunModeGpu /\ recommended <= memAvailable THEN FitPerfect
  ELSE IF memAvailable * 10 >= memRequired * 12 THEN FitGood
  ELSE FitMarginal

(* scoreFit without the TooTight override *)
scoreFitNoOverride(memRequired, memAvailable, recommended, runMode) ==
  IF runMode = RunModeGpu /\ recommended <= memAvailable THEN FitPerfect
  ELSE IF runMode # RunModeCpuOnly /\ memAvailable * 10 >= memRequired * 12 THEN FitGood
  ELSE FitMarginal

scoreFit(memRequired, memAvailable, recommended, runMode) ==
  IF memRequired > memAvailable THEN FitTooTight
  ELSE CASE runMode = RunModeGpu ->
              IF recommended <= memAvailable THEN FitPerfect
              ELSE IF memAvailable * 10 >= memRequired * 12 THEN FitGood
              ELSE FitMarginal
         [] runMode \in {RunModeMoeOffload, RunModeCpuOffload} ->
              IF memAvailable * 10 >= memRequired * 12 THEN FitGood
              ELSE FitMarginal
         [] runMode = RunModeCpuOnly -> FitMarginal
         [] OTHER -> FitMarginal

(* Analyze's minVram: the declared min VRAM, else the min RAM *)
minVramOf(m) == IF m.MinVRAMGB # Nil THEN Deref(m.MinVRAMGB) ELSE m.MinRAMGB

(* unifiedPath with the memory figures of the CPU-only case *)
unifiedPathAsCpu(m, sys, minVram) ==
  IF sys.GpuVRAMGB # Nil
  THEN [runMode      |-> RunModeGpu,
        memRequired  |-> m.MinRAMGB,
        memAvailable |-> sys.AvailableRAMGB,
        notes        |-> <<Note("Unified memory: GPU and CPU share the same pool", <<>>)>>]
  ELSE cpuPath(m, sys, <<>>)

(* Analyze, the branch system.UnifiedMemory *)
unifiedPath(m, sys, minVram) ==
  IF sys.GpuVRAMGB # Nil
  THEN [runMode      |-> RunModeGpu,
        memRequired  |-> minVram,
        memAvailable |-> Deref(sys.GpuVRAMGB),
        notes        |->
           <<Note("Unified memory: GPU and CPU share the same pool", <<>>)>>
           \o (IF m.IsMoE /\ m.NumExperts # Nil
               THEN <<Note("MoE: %d/%d experts active (all share unified memory pool)",
                           <<IF m.ActiveExperts # Nil THEN Deref(m.ActiveExperts) ELSE 0,
                             Deref(m.NumExperts)>>)>>
               ELSE <<>>)]
  ELSE cpuPath(m, sys, <<>>)

(* gpuPath asking for strictly more VRAM than the model needs *)
gpuPathStrict(m, sys, minVram, sysVram) ==
  IF minVram < sysVram
  THEN [runMode |-> RunModeGpu, memRequired |-> minVram, memAvailable |-> sysVram,
        notes |-> <<Note("GPU: model loaded into VRAM", <<>>)>>]
  ELSE IF m.IsMoE
  THEN moeOffloadPath(m, sys, sysVram, minVram, <<>>)
  ELSE IF m.MinRAMGB <= sys.AvailableRAMGB
  THEN [runMode |-> RunModeCpuOffload, memRequired |-> m.MinRAMGB,
        memAvailable |-> sys.AvailableRAMGB, notes |-> <<>>]
  ELSE [runMode |-> RunModeGpu, memRequired |-> minVram, memAvailable |-> sysVram,
        notes |-> <<>>]

(* Analyze, the branch of a discrete GPU whose VRAM sysVram is known *)
gpuPath(m, sys, minVram, sysVram) ==
  IF minVram <= sysVram
  THEN [runMode      |-> RunModeGpu,
        memRequired  |-> minVram,
        memAvailable |-> sysVram,
        notes        |->
           <<Note("GPU: model loaded into VRAM", <<>>)>>
           \o (IF m.IsMoE /\ m.NumExperts # Nil
               THEN <<Note("MoE: all %d experts loaded in VRAM (optimal)",
                           <<Deref(m.NumExperts)>>)>>
               ELSE <<>>)]
  ELSE IF m.IsMoE
  THEN moeOffloadPath(m, sys, sysVram, minVram, <<>>)
  ELSE IF m.MinRAMGB <= sys.AvailableRAMGB
  THEN [runMode      |-> RunModeCpuOffload,
        memRequired  |-> m.MinRAMGB,
        memAvailable |-> sys.AvailableRAMGB,
        notes        |->
           <<Note("GPU: insufficient VRAM, spilling to system RAM", <<>>),
             Note("Performance will be significantly reduced", <<>>)>>]
  ELSE [runMode      |-> RunModeGpu,
        memRequired  |-> minVram,
        memAvailable |-> sysVram,
        notes        |->
           <<Note("Insufficient VRAM and system RAM", <<>>),
             Note("Need %.1f GB VRAM or %.1f GB system RAM", <<minVram, m.MinRAMGB>>)>>]

(* the run mode, the two memory figures and the notes of Analyze's         *)
(* decision tree (the assignments up to the call of scoreFit)              *)
selectRunMode(m, sys) ==
  IF sys.HasGPU
  THEN IF sys.UnifiedMemory THEN unifiedPath(m, sys, minVramOf(m))
       ELSE IF sys.GpuVRAMGB # Nil
       THEN gpuPath(m, sys, minVramOf(m), Deref(sys.GpuVRAMGB))
       ELSE cpuPath(m, sys, <<Note("GPU detected but VRAM unknown", <<>>)>>)
  ELSE cpuPath(m, sys, <<>>)

(* tokens per second, in thousandths.  GOARCH is the build's               *)
(* runtime.GOARCH.  The factors are applied in one quotient:               *)
(* k / params * multiplier [* 1.1] [* penalty].                            *)
estimateTPS(m, quant, sys, runMode, GOARCH) ==
  LET k      == CASE sys.Backend = BackendCuda -> 220
                  [] sys.Backend = BackendMetal -> 160
                  [] sys.Backend = BackendRocm -> 180
                  [] sys.Backend = BackendVulkan -> 150
                  [] sys.Backend = BackendSycl -> 100
                  [] sys.Backend = BackendCpuArm -> 90
                  [] sys.Backend = BackendCpuX86 -> 70
                  [] OTHER -> 70
      params == Max(ParamsB(m), 100)
      cores  == IF sys.TotalCPUCores >= 8 THEN 11 ELSE 10
      mode   == CASE runMode = RunModeMoeOffload -> 8
                  [] runMode = RunModeCpuOffload -> 5
                  [] runMode = RunModeCpuOnly -> 3
                  [] OTHER -> 10
      cpuK   == IF GOARCH = "arm64" THEN 90 ELSE 70
      base   == IF runMode = RunModeCpuOnly
                THEN (cpuK * QuantSpeedMultiplier(quant) * cores * 1000) \div params
                ELSE (k * QuantSpeedMultiplier(quant) * cores * mode * 100) \div params
  IN  Max(base, 100)

(* the sub-scores, in thousandths of a point *)
qualityScore(m, quant, useCase) ==
  LET params     == ParamsB(m)
      base       == IF params < 1000 THEN 30
                    ELSE IF params < 3000 THEN 45
                    ELSE IF params < 7000 THEN 60
                    ELSE IF params < 10000 THEN 75
                    ELSE IF params < 20000 THEN 82
                    ELSE IF params < 40000 THEN 89
                    ELSE 95
      nameLower  == ToLower(m.Name)
      familyBump == IF Contains(nameLower, <<"q","w","e","n">>) THEN 2
                    ELSE IF Contains(nameLower, <<"d","e","e","p","s","e","e","k">>) THEN 3
                    ELSE IF Contains(nameLower, <<"l","l","a","m","a">>) THEN 2
                    ELSE IF \/ Contains(nameLower, <<"m","i","s","t","r","a","l">>)
                            \/ Contains(nameLower, <<"m","i","x","t","r","a","l">>) THEN 1
                    ELSE IF Contains(nameLower, <<"g","e","m","m","a">>) THEN 1
                    ELSE IF Contains(nameLower, <<"s","t","a","r","c","o","d","e","r">>) THEN 1
                    ELSE 0
      qPenalty   == QuantQualityPenalty(quant)
      taskBump   == CASE useCase = UseCaseCoding ->
                           IF \/ Contains(nameLower, <<"c","o","d","e">>)
                              \/ Contains(nameLower, <<"s","t","a","r","c","o","d","e","r">>)
                              \/ Contains(nameLower, <<"w","i","z","a","r","d">>)
                           THEN 6 ELSE 0
                      [] useCase = UseCaseReasoning ->
                           IF params >= 13000 THEN 5 ELSE 0
                      [] useCase = UseCaseMultimodal ->
                           IF \/ Contains(nameLower, <<"v","i","s","i","o","n">>)
                              \/ Contains(ToLower(m.UseCase), <<"v","i","s","i","o","n">>)
                           THEN 6 ELSE 0
                      [] OTHER -> 0
      v          == base + familyBump + qPenalty + taskBump
  IN  1000 * Min(Max(v, 0), 100)

speedScore(tps, useCase) ==
  LET target == IF useCase = UseCaseReasoning THEN 25
                ELSE IF useCase = UseCaseEmbedding THEN 200
                ELSE 40
      v      == (tps * 100) \div target
  IN  Min(Max(v, 0), 100 * 1000)

fitScore(required, available) ==
  IF available <= 0 \/ required > available THEN 0
  ELSE IF required * 2 <= available
       THEN 60 * 1000 + MulDiv(required, 80 * 1000, available)
  ELSE IF required * 10 <= available * 8 THEN 100 * 1000
  ELSE IF required * 10 <= available * 9 THEN 70 * 1000
  ELSE 50 * 1000

contextScore(m, useCase) ==
  LET target == CASE useCase \in {UseCaseCoding, UseCaseReasoning} -> 8192
                  [] useCase = UseCaseEmbedding -> 512
                  [] OTHER -> 4096
  IN  IF m.ContextLength >= target THEN 100 * 1000
      ELSE IF m.ContextLength >= target \div 2 THEN 70 * 1000
      ELSE 30 * 1000

computeScores(m, quant, useCase, estimatedTPS, memRequired, memAvailable) ==
  [Quality |-> qualityScore(m, quant, useCase),
   Speed   |-> speedScore(estimatedTPS, useCase),
   Fit     |-> fitScore(memRequired, memAvailable),
   Context |-> contextScore(m, useCase)]

(* the weights, in hundredths: <<quality, speed, fit, context>> *)
Weights(useCase) ==
  CASE useCase = UseCaseGeneral -> <<45, 30, 15, 10>>
    [] useCase = UseCaseCoding -> <<50, 20, 15, 15>>
    [] useCase = UseCaseReasoning -> <<55, 15, 15, 15>>
    [] useCase = UseCaseChat -> <<40, 35, 15, 10>>
    [] useCase = UseCaseMultimodal -> <<50, 20, 15, 15>>
    [] useCase = UseCaseEmbedding -> <<30, 40, 20, 10>>
    [] OTHER -> <<45, 30, 15, 10>>

(* weightedScore that cuts the sum to one decimal instead of rounding it *)
weightedScoreTruncated(sc, useCase) ==
  LET w   == Weights(useCase)
      raw == sc.Quality * w[1] + sc.Speed * w[2] + sc.Fit * w[3] + sc.Context * w[4]
  IN  raw \div 10000

(* math.Round(raw * 10) / 10, in tenths of a point: raw is in units of     *)
(* 10^-5 points, and rounds half up.                                       *)
weightedScore(sc, useCase) ==
  LET w   == Weights(useCase)
      raw == sc.Quality * w[1] + sc.Speed * w[2] + sc.Fit * w[3] + sc.Context * w[4]
  IN  (raw + 5000) \div 10000

(* the value Analyze stores as UtilizationPct when nothing is available *)
MaxFloat64 == 2147483647

(* the local variables of a call of Analyze, with Go's zero values *)
ZeroFrame ==
  [useCase      |-> "",
   notes        |-> <<>>,
   runMode      |-> RunModeGpu,
   memRequired  |-> 0,
   memAvailable |-> 0,
   fitLevel     |-> FitPerfect,
   utilPct      |-> 0,
   moeOffloaded |-> Nil,
   bestQuant    |-> "",
   estimatedTPS |-> 0,
   sc           |-> [Quality |-> 0, Speed |-> 0, Fit |-> 0, Context |-> 0],
   score        |-> 0]

(* Analyze's statements, each as the locals f after it.                    *)
(* useCase := ...; the decision tree's runMode, memRequired, memAvailable  *)
(* and notes                                                               *)
treeAssign(f, useCase, path) ==
  [f EXCEPT !.useCase      = useCase,
            !.notes        = path.notes,
            !.runMode      = path.runMode,
            !.memRequired  = path.memRequired,
            !.memAvailable = path.memAvailable]

treeStmt(m, sys, f) == treeAssign(f, UseCaseFromModel(m), selectRunMode(m, sys))

(* fitLevel := scoreFit(...); utilPct; the CPU notes; moeOffloaded *)
levelStmt(m, sys, f) ==
  [f EXCEPT
     !.fitLevel     = scoreFit(f.memRequired, f.memAvailable, m.RecommendedRAMGB, f.runMode),
     !.utilPct      = IF f.memAvailable > 0
                      THEN MulDiv(f.memRequired, 100, f.memAvailable)
                      ELSE MaxFloat64,
     !.notes        =
        f.notes
        \o (IF f.runMode = RunModeCpuOnly
            THEN <<Note("No GPU -- inference will be slow", <<>>)>> ELSE <<>>)
        \o (IF f.runMode \in {RunModeCpuOffload, RunModeCpuOnly} /\ sys.TotalCPUCores < 4
            THEN <<Note("Low CPU core count may bottleneck inference", <<>>)>>
            ELSE <<>>),
     !.moeOffloaded = IF f.runMode = RunModeMoeOffload THEN MoeOffloadedRAMGB(m) ELSE Nil]

(* bestQuant, _ := model.BestQuantForBudget(memAvailable, model.ContextLength) *)
quantStmt(m, f) ==
  [f EXCEPT !.bestQuant = BestQuantForBudget(m, f.memAvailable, m.ContextLength)[1]]

(* if bestQuant != model.Quantization { notes = append(...) } *)
quantNoteStmt(m, f) ==
  [f EXCEPT !.notes =
     f.notes \o (IF f.bestQuant # m.Quantization
                 THEN <<Note("Best quantization for hardware: (model default: )", <<>>)>>
                 ELSE <<>>)]

(* estimatedTPS := estimateTPS(model, bestQuant, system, runMode) *)
tpsStmt(m, sys, GOARCH, f) ==
  [f EXCEPT !.estimatedTPS = estimateTPS(m, f.bestQuant, sys, f.runMode, GOARCH)]

(* sc := computeScores(...) *)
scoresStmt(m, f) ==
  [f EXCEPT !.sc = computeScores(m, f.bestQuant, f.useCase, f.estimatedTPS,
                                 f.memRequired, f.memAvailable)]

(* score := weightedScore(sc, useCase); the speed note *)
scoreStmt(f) ==
  [f EXCEPT !.score = weightedScore(f.sc, f.useCase),
            !.notes = f.notes \o (IF f.estimatedTPS > 0
                                  THEN <<Note("Estimated speed: %.1f tok/s", <<f.estimatedTPS>>)>>
                                  ELSE <<>>)]

(* Analyze from BestQuantForBudget to the speed note *)
scoreStmts(m, sys, GOARCH, f) ==
  scoreStmt(scoresStmt(m, tpsStmt(m, sys, GOARCH, quantNoteStmt(m, quantStmt(m, f)))))

(* return &ModelFit{...} *)
returnStmt(m, f) ==
  [Model             |-> m,
   FitLevel          |-> f.fitLevel,
   RunMode           |-> f.runMode,
   MemoryRequiredGB  |-> f.memRequired,
   MemoryAvailableGB |-> f.memAvailable,
   UtilizationPct    |-> f.utilPct,
   Notes             |-> f.notes,
   MoeOffloadedGB    |-> f.moeOffloaded,
   Score             |-> f.score,
   ScoreComponents   |-> f.sc,
   EstimatedTPS      |-> f.estimatedTPS,
   BestQuant         |-> f.bestQuant,
   UseCase           |-> f.useCase]

Analyze(m, sys, GOARCH) ==
  returnStmt(m, scoreStmts(m, sys, GOARCH, levelStmt(m, sys, treeStmt(m, sys, ZeroFrame))))

-----------------------------------------------------------------------------
(* the inputs of the fit analysis *)

MaxRAMSteps == 3

MaxVRAMSteps == 3

MemStepGB == 4

AvailableRAMValues == {k * MemStepGB * MicroGB : k \in 0..MaxRAMSteps}

VRAMValues == {k * MemStepGB * MicroGB : k \in 1..MaxVRAMSteps}

NameLlama == <<"l","l","a","m","a","-","7","b">>

NameStarCoder == <<"S","t","a","r","C","o","d","e","r","-","7","B">>

NameBge == <<"B","A","A","I","/","b","g","e","-","l","a","r","g","e">>

TextGeneration == <<"t","e","x","t"," ","g","e","n","e","r","a","t","i","o","n">>

(* rows of the model dataset:                                              *)
(* <<Name, UseCase, ParametersRaw, ParameterCount, Quantization, ContextLength>> *)
DatasetRows ==
  {<<NameLlama, TextGeneration, Nil, <<"7","B">>, "Q4_K_M", 2048>>,
   <<NameStarCoder, <<>>, Some(7000), <<"7","B">>, "Q4_K_M", 16384>>,
   <<NameBge, <<>>, Nil, <<"6","0","0","m">>, "F16", 2048>>}

(* <<IsMoE, NumExperts, ActiveExperts, ActiveParameters>> *)
MoeForms == {<<FALSE, Nil, Nil, Nil>>, <<TRUE, Nil, Nil, Nil>>,
             <<TRUE, Some(8), Some(2), Some(3000)>>, <<TRUE, Some(8), Nil, Some(13000)>>}

ModelRecords ==
  {[Name             |-> row[1],
    ParameterCount   |-> row[4],
    ParametersRaw    |-> row[3],
    MinRAMGB         |-> minRam * MicroGB,
    RecommendedRAMGB |-> rec * MicroGB,
    MinVRAMGB        |-> minVram,
    Quantization     |-> row[5],
    ContextLength    |-> row[6],
    UseCase          |-> row[2],
    IsMoE            |-> mf[1],
    NumExperts       |-> mf[2],
    ActiveExperts    |-> mf[3],
    ActiveParameters |-> mf[4]] :
     row \in DatasetRows, minRam \in {4, 10}, rec \in {8, 16},
     minVram \in {Nil, Some(6 * MicroGB)}, mf \in MoeForms}

(* The snapshots Analyze is given: without a GPU the backend is the CPU    *)
(* backend (backendCPU); a unified-memory GPU is the Metal device whose    *)
(* pool is the total RAM; another GPU is a CUDA device.                    *)
SystemSnapshots(arch) ==
  {[TotalRAMGB     |-> MaxRAMSteps * MemStepGB * MicroGB,
    AvailableRAMGB |-> avail,
    TotalCPUCores  |-> cores,
    HasGPU         |-> FALSE,
    GpuVRAMGB      |-> Nil,
    UnifiedMemory  |-> FALSE,
    Backend        |-> IF arch = "arm64" THEN BackendCpuArm ELSE BackendCpuX86] :
     avail \in AvailableRAMValues, cores \in {2, 8}}
  \cup
  {[TotalRAMGB     |-> IF unified /\ vram # Nil THEN Deref(vram)
                       ELSE MaxRAMSteps * MemStepGB * MicroGB,
    AvailableRAMGB |-> avail,
    TotalCPUCores  |-> cores,
    HasGPU         |-> TRUE,
    GpuVRAMGB      |-> vram,
    UnifiedMemory  |-> unified,
    Backend        |-> IF unified THEN BackendMetal ELSE BackendCuda] :
     avail \in AvailableRAMValues, cores \in {2, 8},
     vram \in {Nil} \cup {Some(v) : v \in VRAMValues}, unified \in BOOLEAN}

-----------------------------------------------------------------------------
(* one analysis: Analyze(model, system) *)

(* the variables of the other operations while one is being run *)
NoAnalysis == model = Nil /\ fit = Nil

NoAnalyzeAll == models = <<>> /\ pc = <<>> /\ frames = <<>> /\ results = <<>>

NoRanking == fits = <<>> /\ ranked = Nil

NoCall == call = Nil /\ ret = Nil

NoDetect == probe = Nil

InitFit ==
  /\ goarch \in {"amd64", "arm64"}
  /\ model \in ModelRecords
  /\ system \in {s \in SystemSnapshots(goarch) : s.AvailableRAMGB <= s.TotalRAMGB}
  /\ fit = Nil
  /\ NoAnalyzeAll
  /\ NoRanking
  /\ NoCall
  /\ NoDetect

DoAnalyze ==
  /\ fit = Nil
  /\ fit' = Some(Analyze(model, system, goarch))
  /\ UNCHANGED <<model, system, goarch, allVars, rankVars, callVars, probe>>

NextFit == DoAnalyze

SpecFit == InitFit /\ [][NextFit]_vars

-----------------------------------------------------------------------------
(* properties of one analysis (SpecFit) *)

Analyzed == fit # Nil

Result == Deref(fit)

(* the m of the decision tree: the declared min VRAM, else the min RAM *)
DeclaredMinVram ==
  IF model.MinVRAMGB # Nil THEN Deref(model.MinVRAMGB) ELSE model.MinRAMGB

NoUsableGpu == ~system.HasGPU \/ system.GpuVRAMGB = Nil

DiscreteGpu == system.HasGPU /\ ~system.UnifiedMemory /\ system.GpuVRAMGB # Nil

UnifiedGpu == system.HasGPU /\ system.UnifiedMemory /\ system.GpuVRAMGB # Nil

ReportsCpuFigures ==
  /\ Result.MemoryRequiredGB = model.MinRAMGB
  /\ Result.MemoryAvailableGB = system.AvailableRAMGB

ReportsVramFigures ==
  /\ Result.MemoryRequiredGB = DeclaredMinVram
  /\ Result.MemoryAvailableGB = Deref(system.GpuVRAMGB)

(* C1: with no GPU, or a GPU whose VRAM is unknown, Analyze returns         *)
(* CPU-only with required = the model's min RAM and available = the         *)
(* system's available RAM.                                                  *)
C1_CpuOnlyWithoutUsableGpu ==
  (Analyzed /\ NoUsableGpu) =>
     (Result.RunMode = RunModeCpuOnly /\ ReportsCpuFigures)

C1_Witness ==
  /\ Analyzed /\ system.HasGPU /\ system.GpuVRAMGB = Nil
  /\ model.MinVRAMGB # Nil /\ Deref(model.MinVRAMGB) # model.MinRAMGB
  /\ system.AvailableRAMGB # system.TotalRAMGB
  /\ Result.RunMode = RunModeCpuOnly

(* C2: on a discrete GPU with known VRAM and m = min VRAM (min RAM when     *)
(* none is declared): VRAM >= m gives GPU mode with required = m and        *)
(* available = VRAM, MoE or not; VRAM < m and not MoE gives                 *)
(* CPU+GPU-offload with the RAM figures when min RAM <= available RAM,      *)
(* and otherwise GPU mode with required = m and available = VRAM.           *)
C2_DiscreteGpuTree ==
  (Analyzed /\ DiscreteGpu) =>
     /\ Deref(system.GpuVRAMGB) >= DeclaredMinVram =>
           (Result.RunMode = RunModeGpu /\ ReportsVramFigures)
     /\ (Deref(system.GpuVRAMGB) < DeclaredMinVram /\ ~model.IsMoE) =>
           IF model.MinRAMGB <= system.AvailableRAMGB
           THEN Result.RunMode = RunModeCpuOffload /\ ReportsCpuFigures
           ELSE Result.RunMode = RunModeGpu /\ ReportsVramFigures

C2_Witness ==
  /\ Analyzed /\ DiscreteGpu /\ ~model.IsMoE
  /\ Deref(system.GpuVRAMGB) < DeclaredMinVram
  /\ model.MinRAMGB > system.AvailableRAMGB
  /\ Result.RunMode = RunModeGpu
  /\ Result.MemoryRequiredGB > Result.MemoryAvailableGB

(* C3 as stated: on a unified-memory GPU with a known pool Analyze returns  *)
(* GPU mode with the figures of the CPU-only case, required = min RAM and   *)
(* available = available RAM.                                               *)
C3_UnifiedReportsCpuFigures ==
  (Analyzed /\ UnifiedGpu) => (Result.RunMode = RunModeGpu /\ ReportsCpuFigures)

(* C3 amended: on a unified-memory GPU with a known pool Analyze returns    *)
(* GPU mode with required = min VRAM (min RAM when none is declared) and    *)
(* available = the pool size recorded as the GPU's VRAM.                    *)
C3_UnifiedReportsPoolFigures ==
  (Analyzed /\ UnifiedGpu) => (Result.RunMode = RunModeGpu /\ ReportsVramFigures)

C3_Witness ==
  /\ Analyzed /\ UnifiedGpu
  /\ DeclaredMinVram # model.MinRAMGB
  /\ Deref(system.GpuVRAMGB) # system.AvailableRAMGB
  /\ Result.RunMode = RunModeGpu

(* the MoE split of the model under analysis *)
ActiveVRAM == MoeActiveVRAMGB(model)

OffloadedRAM == MoeOffloadedRAMGB(model)

SplitFits ==
  /\ ActiveVRAM # Nil /\ Deref(ActiveVRAM) <= Deref(system.GpuVRAMGB)
  /\ (IF OffloadedRAM # Nil THEN Deref(OffloadedRAM) ELSE 0) <= system.AvailableRAMGB

InMoeSubProcedure ==
  DiscreteGpu /\ model.IsMoE /\ DeclaredMinVram > Deref(system.GpuVRAMGB)

(* C5 as stated: in the MoE-offload sub-procedure, when the split does not  *)
(* fit: CPU+GPU-offload if min RAM fits available RAM, else GPU mode with   *)
(* required = ActiveVRAM when known (min VRAM when unknown) and             *)
(* available = VRAM.                                                        *)
C5_InsufficientReportsActiveVram ==
  (Analyzed /\ InMoeSubProcedure /\ ~SplitFits) =>
     IF model.MinRAMGB <= system.AvailableRAMGB
     THEN Result.RunMode = RunModeCpuOffload
     ELSE /\ Result.RunMode = RunModeGpu
          /\ Result.MemoryRequiredGB =
                (IF ActiveVRAM # Nil THEN Deref(ActiveVRAM) ELSE DeclaredMinVram)
          /\ Result.MemoryAvailableGB = Deref(system.GpuVRAMGB)

(* C5 amended: in the MoE-offload sub-procedure, when the split does not    *)
(* fit: CPU+GPU-offload if min RAM fits available RAM, else GPU mode with   *)
(* required = the full min VRAM, whether or not ActiveVRAM is known, and    *)
(* available = VRAM.                                                        *)
C5_InsufficientReportsFullVram ==
  (Analyzed /\ InMoeSubProcedure /\ ~SplitFits) =>
     IF model.MinRAMGB <= system.AvailableRAMGB
     THEN Result.RunMode = RunModeCpuOffload
     ELSE Result.RunMode = RunModeGpu /\ ReportsVramFigures

C5_Witness ==
  /\ Analyzed /\ InMoeSubProcedure /\ ~SplitFits
  /\ model.MinRAMGB > system.AvailableRAMGB
  /\ ActiveVRAM # Nil /\ Deref(ActiveVRAM) # DeclaredMinVram
  /\ Result.RunMode = RunModeGpu

Headroom == Result.MemoryAvailableGB * 10 >= Result.MemoryRequiredGB * 12

(* C6: the fit level is TooTight whenever required > available; otherwise   *)
(* in GPU mode Perfect when the recommended threshold <= available, else    *)
(* Good when available >= 1.2 x required, else Marginal; in MoE-offload     *)
(* and CPU+GPU-offload mode Good when available >= 1.2 x required, else     *)
(* Marginal.                                                                *)
C6_FitLevelTable ==
  Analyzed =>
     IF Result.MemoryRequiredGB > Result.MemoryAvailableGB
     THEN Result.FitLevel = FitTooTight
     ELSE /\ Result.RunMode = RunModeGpu =>
               Result.FitLevel =
                  (IF model.RecommendedRAMGB <= Result.MemoryAvailableGB THEN FitPerfect
                   ELSE IF Headroom THEN FitGood ELSE FitMarginal)
          /\ Result.RunMode \in {RunModeMoeOffload, RunModeCpuOffload} =>
               Result.FitLevel = (IF Headroom THEN FitGood ELSE FitMarginal)

C6_Witness ==
  /\ Analyzed /\ Result.RunMode = RunModeGpu
  /\ Result.MemoryRequiredGB <= Result.MemoryAvailableGB
  /\ model.RecommendedRAMGB > Result.MemoryAvailableGB
  /\ Headroom
  /\ Result.FitLevel = FitGood

(* C7: a CPU-only result is Marginal or TooTight, never Good or Perfect,    *)
(* however far the available RAM exceeds the required RAM.                  *)
C7_CpuOnlyCappedAtMarginal ==
  (Analyzed /\ Result.RunMode = RunModeCpuOnly) =>
     Result.FitLevel \in {FitMarginal, FitTooTight}

C7_Witness ==
  /\ Analyzed /\ Result.RunMode = RunModeCpuOnly
  /\ Result.MemoryAvailableGB >= 3 * Result.MemoryRequiredGB
  /\ model.RecommendedRAMGB <= Result.MemoryAvailableGB
  /\ Result.FitLevel = FitMarginal

RunModes == {RunModeGpu, RunModeMoeOffload, RunModeCpuOffload, RunModeCpuOnly}

FitLevels == {FitPerfect, FitGood, FitMarginal, FitTooTight}

SubScores == 0..(100 * 1000)

(* C8: Analyze returns a complete result for every model and snapshot,      *)
(* zero available memory and absent optional fields included: every field   *)
(* is populated (run mode, fit level, required and available memory, best   *)
(* quantization, speed estimate, the four sub-scores, the composite score), *)
(* and a model that does not fit is reported as TooTight, not rejected.     *)
C8_AlwaysCompleteResult ==
  Analyzed =>
       /\ Result.Model = model
       /\ Result.RunMode \in RunModes
       /\ Result.FitLevel \in FitLevels
       /\ Result.MemoryRequiredGB \in Nat /\ Result.MemoryAvailableGB \in Nat
       /\ Result.BestQuant \in {QuantHierarchy[i] : i \in 1..Len(QuantHierarchy)}
                                 \cup {model.Quantization}
       /\ Result.EstimatedTPS \in Nat /\ Result.EstimatedTPS > 0
       /\ Result.ScoreComponents.Quality \in SubScores
       /\ Result.ScoreComponents.Speed \in SubScores
       /\ Result.ScoreComponents.Fit \in SubScores
       /\ Result.ScoreComponents.Context \in SubScores
       /\ Result.Score \in 0..1000
       /\ Result.MemoryRequiredGB > Result.MemoryAvailableGB =>
             Result.FitLevel = FitTooTight
       /\ Result.MemoryAvailableGB = 0 =>
             (Result.UtilizationPct = MaxFloat64 /\ Result.ScoreComponents.Fit = 0)

C8_Witness ==
  /\ Analyzed
  /\ system.AvailableRAMGB = 0 /\ ~system.HasGPU
  /\ model.MinVRAMGB = Nil /\ model.ParametersRaw = Nil
  /\ model.IsMoE /\ model.NumExperts = Nil /\ model.ActiveExperts = Nil
  /\ model.ActiveParameters = Nil
  /\ Result.FitLevel = FitTooTight
  /\ Result.MemoryAvailableGB = 0

-----------------------------------------------------------------------------
(* AnalyzeAll(models, system): one call of Analyze per model, all against  *)
(* the same snapshot.  Each call is run in four steps, and the steps of    *)
(* different calls may be taken in any order: AnalyzeAll's loop is the     *)
(* schedule that finishes call i before it starts call i + 1.              *)

MaxModels == 2

(* the models AnalyzeAll is given: a dense model, a mixture-of-experts     *)
(* model and an embedding model that declare their min VRAM                *)
AnalyzeAllModels ==
  {m \in ModelRecords :
     /\ m.MinRAMGB = 10 * MicroGB
     /\ m.RecommendedRAMGB = 16 * MicroGB
     /\ m.MinVRAMGB # Nil
     /\ (m.IsMoE <=> m.Name = NameStarCoder)
     /\ (m.IsMoE => m.ActiveExperts # Nil)}

AnalyzeAllSnapshots(arch) ==
  {s \in SystemSnapshots(arch) : s.TotalCPUCores = 8 /\ s.AvailableRAMGB = s.TotalRAMGB}

(* all calls keeping their locals in one place, as package-level variables *)
FrameOfShared(i) == 1

(* where call i keeps its locals: they are declared in the body of         *)
(* Analyze, so every call has its own                                      *)
FrameOf(i) == i

Calls == 1..Len(models)

InitAll ==
  /\ goarch \in {"amd64", "arm64"}
  /\ system \in AnalyzeAllSnapshots(goarch)
  /\ models \in [1..MaxModels -> AnalyzeAllModels]
  /\ pc = [i \in 1..MaxModels |-> "tree"]
  /\ frames = [i \in 1..MaxModels |-> ZeroFrame]
  /\ results = [i \in 1..MaxModels |-> Nil]
  /\ NoAnalysis
  /\ NoRanking
  /\ NoCall
  /\ NoDetect

(* Analyze up to the call of scoreFit: the use case and the decision tree *)
AnalyzeTree(i) ==
  /\ pc[i] = "tree"
  /\ frames' = [frames EXCEPT ![FrameOf(i)] = treeStmt(models[i], system, @)]
  /\ pc' = [pc EXCEPT ![i] = "level"]
  /\ UNCHANGED <<models, results, system, goarch, fitVars, rankVars, callVars, probe>>

(* Analyze from scoreFit to the MoE offload figure *)
AnalyzeLevel(i) ==
  /\ pc[i] = "level"
  /\ frames' = [frames EXCEPT ![FrameOf(i)] = levelStmt(models[i], system, @)]
  /\ pc' = [pc EXCEPT ![i] = "score"]
  /\ UNCHANGED <<models, results, system, goarch, fitVars, rankVars, callVars, probe>>

(* Analyze from BestQuantForBudget to the speed note *)
AnalyzeScore(i) ==
  /\ pc[i] = "score"
  /\ frames' = [frames EXCEPT ![FrameOf(i)] = scoreStmts(models[i], system, goarch, @)]
  /\ pc' = [pc EXCEPT ![i] = "return"]
  /\ UNCHANGED <<models, results, system, goarch, fitVars, rankVars, callVars, probe>>

(* Analyze's return statement, and AnalyzeAll's append of what it returns *)
AnalyzeReturn(i) ==
  /\ pc[i] = "return"
  /\ results' = [results EXCEPT ![i] = Some(returnStmt(models[i], frames[FrameOf(i)]))]
  /\ pc' = [pc EXCEPT ![i] = "done"]
  /\ UNCHANGED <<models, frames, system, goarch, fitVars, rankVars, callVars, probe>>

NextAll ==
  \E i \in Calls :
    \/ AnalyzeTree(i)
    \/ AnalyzeLevel(i)
    \/ AnalyzeScore(i)
    \/ AnalyzeReturn(i)

SpecAll == InitAll /\ [][NextAll]_vars

(* properties of AnalyzeAll (SpecAll) *)

(* C9: Analyze is a pure function of the model record and the snapshot.    *)
(* However the calls for several models against one snapshot are ordered   *)
(* or interleaved, every call that has returned has returned exactly what  *)
(* Analyze gives for its model evaluated alone, and no step of any call    *)
(* changes a model record, the snapshot or another call's result.          *)
C9_AnalyzeIsPure ==
  /\ [](\A i \in Calls :
          pc[i] = "done" => results[i] = Some(Analyze(models[i], system, goarch)))
  /\ [][/\ models' = models
        /\ system' = system
        /\ \A i \in Calls : results[i] # Nil => results'[i] = results[i]]_vars

(* two different models, both analysed against the one snapshot, with      *)
(* different outcomes                                                      *)
C9_Witness ==
  /\ Len(models) >= 2
  /\ models[1] # models[2]
  /\ pc[1] = "done" /\ pc[2] = "done"
  /\ Deref(results[1]).Model = models[1]
  /\ Deref(results[2]).Model = models[2]
  /\ Deref(results[1]).RunMode # Deref(results[2]).RunMode
  /\ Deref(results[1]).Score # Deref(results[2]).Score

-----------------------------------------------------------------------------
(* RankModelsByFit(fits) *)

MaxFits == 4

(* the fit levels and the scores (in tenths) of the results to rank: a     *)
(* result is known by its model, and only its FitLevel and its Score are   *)
(* read                                                                    *)
RankLevels == {FitPerfect, FitMarginal, FitTooTight}

RankScores == {552, 781}

FitSlices ==
  UNION {{[k \in 1..n |-> [Model |-> k, FitLevel |-> e[k][1], Score |-> e[k][2]]] :
            e \in [1..n -> RankLevels \X RankScores]} : n \in 0..MaxFits}

(* the comparator without the Too Tight rule *)
rankLessByScore(a, b) == a.Score > b.Score

(* the less function RankModelsByFit gives to sort.Slice *)
rankLess(a, b) ==
  LET ar == a.FitLevel # FitTooTight
      br == b.FitLevel # FitTooTight
  IN  IF ar /\ ~br THEN TRUE
      ELSE IF ~ar /\ br THEN FALSE
      ELSE a.Score > b.Score

Swap(s, i, j) == [s EXCEPT ![i] = s[j], ![j] = s[i]]

(* sort.Slice on a slice of at most 12 elements is an insertion sort:      *)
(* for i := 1; i < n; i++ { for j := i; j > 0 && less(j, j-1); j-- {       *)
(* swap(j, j-1) } }.  Indices here start at 1.                             *)
RECURSIVE insertLeft(_, _)
insertLeft(s, j) ==
  IF j > 1 /\ rankLess(s[j], s[j - 1]) THEN insertLeft(Swap(s, j, j - 1), j - 1) ELSE s

RECURSIVE insertionSort(_, _)
insertionSort(s, i) ==
  IF i > Len(s) THEN s ELSE insertionSort(insertLeft(s, i), i + 1)

RankModelsByFit(in) == insertionSort(in, 2)

InitRank ==
  /\ fits \in FitSlices
  /\ ranked = Nil
  /\ goarch = "amd64"
  /\ system = Nil
  /\ NoAnalysis
  /\ NoAnalyzeAll
  /\ NoCall
  /\ NoDetect

DoRank ==
  /\ ranked = Nil
  /\ ranked' = Some(RankModelsByFit(fits))
  /\ UNCHANGED <<fits, system, goarch, fitVars, allVars, callVars, probe>>

NextRank == DoRank

SpecRank == InitRank /\ [][NextRank]_vars

(* properties of the ranking (SpecRank) *)

Ranked == Deref(ranked)

Runnable(f) == f.FitLevel # FitTooTight

(* C10: what RankModelsByFit returns is a permutation of its argument,     *)
(* every Too Tight entry comes after every entry that is not Too Tight,    *)
(* and within each of the two groups the scores never increase.            *)
C10_RankIsPartitionedPermutation ==
  ranked # Nil =>
    /\ Len(Ranked) = Len(fits)
    /\ \A k \in 1..Len(fits) : Cardinality({i \in 1..Len(Ranked) : Ranked[i] = fits[k]}) = 1
    /\ \A i, j \in 1..Len(Ranked) :
         i < j =>
           /\ ~(~Runnable(Ranked[i]) /\ Runnable(Ranked[j]))
           /\ (Runnable(Ranked[i]) <=> Runnable(Ranked[j]))
                => Ranked[i].Score >= Ranked[j].Score

(* a slice has been ranked in which a Too Tight entry stood before a      *)
(* runnable entry of lower score, and a runnable entry before a runnable   *)
(* entry of higher score                                                   *)
C10_Witness ==
  /\ ranked # Nil
  /\ \E i, j \in 1..Len(fits) :
       i < j /\ ~Runnable(fits[i]) /\ Runnable(fits[j]) /\ fits[i].Score > fits[j].Score
  /\ \E i, j \in 1..Len(fits) :
       i < j /\ Runnable(fits[i]) /\ Runnable(fits[j]) /\ fits[i].Score < fits[j].Score
  /\ Ranked # fits

-----------------------------------------------------------------------------
(* FilterByUseCase(fits, useCase) *)

MaxFilterFits == 3

UseCases == {UseCaseGeneral, UseCaseCoding, UseCaseReasoning, UseCaseChat,
             UseCaseMultimodal, UseCaseEmbedding}

(* the results to filter: a result is known by its model, and only its     *)
(* UseCase is read                                                         *)
FilterSlices ==
  UNION {{[k \in 1..n |-> [Model |-> k, UseCase |-> e[k]]] : e \in [1..n -> UseCases]} :
           n \in 0..MaxFilterFits}

FilterLabels ==
  {<<"g","e","n","e","r","a","l">>,
   <<"c","o","d","i","n","g">>,
   <<"c","o","d","e">>,
   <<"R","e","a","s","o","n","i","n","g">>,
   <<"r","e","a","s","o","n">>,
   <<"C","H","A","T">>,
   <<"m","u","l","t","i","m","o","d","a","l">>,
   <<"v","i","s","i","o","n">>,
   <<"e","m","b","e","d","d","i","n","g">>,
   <<"e","m","b","e","d">>,
   <<"u","n","k","n","o","w","n","-","u","c">>,
   <<>>,
   <<" ","c","o","d","i","n","g">>,
   <<"c","o","d","e","s">>}

(* the switch on strings.ToLower(s); uc is the zero UseCase when not ok *)
useCaseFromString(s) ==
  LET l == ToLower(s)
  IN
       CASE l = <<"g","e","n","e","r","a","l">> -> [uc |-> UseCaseGeneral, ok |-> TRUE]
         [] l = <<"c","o","d","i","n","g">> -> [uc |-> UseCaseCoding, ok |-> TRUE]
         [] l = <<"c","o","d","e">> -> [uc |-> UseCaseCoding, ok |-> TRUE]
         [] l = <<"r","e","a","s","o","n","i","n","g">> -> [uc |-> UseCaseReasoning, ok |-> TRUE]
         [] l = <<"r","e","a","s","o","n">> -> [uc |-> UseCaseReasoning, ok |-> TRUE]
         [] l = <<"c","h","a","t">> -> [uc |-> UseCaseChat, ok |-> TRUE]
         [] l = <<"m","u","l","t","i","m","o","d","a","l">> -> [uc |-> UseCaseMultimodal, ok |-> TRUE]
         [] l = <<"v","i","s","i","o","n">> -> [uc |-> UseCaseMultimodal, ok |-> TRUE]
         [] l = <<"e","m","b","e","d","d","i","n","g">> -> [uc |-> UseCaseEmbedding, ok |-> TRUE]
         [] l = <<"e","m","b","e","d">> -> [uc |-> UseCaseEmbedding, ok |-> TRUE]
         [] OTHER -> [uc |-> UseCaseGeneral, ok |-> FALSE]

(* FilterByUseCase answering an unknown label with no entries *)
FilterByUseCaseStrict(in, useCase) ==
  IF ~useCaseFromString(useCase).ok THEN <<>>
  ELSE SelectSeq(in, LAMBDA f : f.UseCase = useCaseFromString(useCase).uc)

FilterByUseCase(in, useCase) ==
  IF ~useCaseFromString(useCase).ok THEN in
  ELSE SelectSeq(in, LAMBDA f : f.UseCase = useCaseFromString(useCase).uc)

InitFilter ==
  /\ call \in [fits : FilterSlices, useCase : FilterLabels]
  /\ ret = Nil
  /\ goarch = "amd64"
  /\ system = Nil
  /\ NoAnalysis
  /\ NoAnalyzeAll
  /\ NoRanking
  /\ NoDetect

DoFilter ==
  /\ ret = Nil
  /\ ret' = Some(FilterByUseCase(call.fits, call.useCase))
  /\ UNCHANGED <<call, system, goarch, fitVars, allVars, rankVars, probe>>

NextFilter == DoFilter

SpecFilter == InitFilter /\ [][NextFilter]_vars

(* properties of the filter (SpecFilter) *)

(* the use-case names, by category *)
CategoryNames ==
  {<<<<"g","e","n","e","r","a","l">>, UseCaseGeneral>>,
   <<<<"c","o","d","i","n","g">>, UseCaseCoding>>,
   <<<<"c","o","d","e">>, UseCaseCoding>>,
   <<<<"r","e","a","s","o","n","i","n","g">>, UseCaseReasoning>>,
   <<<<"r","e","a","s","o","n">>, UseCaseReasoning>>,
   <<<<"c","h","a","t">>, UseCaseChat>>,
   <<<<"m","u","l","t","i","m","o","d","a","l">>, UseCaseMultimodal>>,
   <<<<"v","i","s","i","o","n">>, UseCaseMultimodal>>,
   <<<<"e","m","b","e","d","d","i","n","g">>, UseCaseEmbedding>>,
   <<<<"e","m","b","e","d">>, UseCaseEmbedding>>}

Recognised(label) == \E p \in CategoryNames : p[1] = ToLower(label)

CategoryOf(label) == (CHOOSE p \in CategoryNames : p[1] = ToLower(label))[2]

(* C11: FilterByUseCase with a label that is not a use-case name returns   *)
(* its input unchanged; with a use-case name (in any case) it returns      *)
(* exactly the entries of that category, in input order.                   *)
C11_FilterByUseCase ==
  ret # Nil =>
    IF ~Recognised(call.useCase) THEN Deref(ret) = call.fits
    ELSE /\ \A k \in 1..Len(call.fits) :
              Cardinality({i \in 1..Len(Deref(ret)) : Deref(ret)[i] = call.fits[k]})
                = (IF call.fits[k].UseCase = CategoryOf(call.useCase) THEN 1 ELSE 0)
         /\ \A i \in 1..Len(Deref(ret)) : \E k \in 1..Len(call.fits) : Deref(ret)[i] = call.fits[k]
         /\ \A i, j \in 1..Len(Deref(ret)) : i < j => Deref(ret)[i].Model < Deref(ret)[j].Model

(* a non-empty label that names no use case was given with results of      *)
(* several categories, and all of them came back                           *)
C11_Witness ==
  /\ ret # Nil
  /\ call.useCase # <<>> /\ ~Recognised(call.useCase)
  /\ Len(call.fits) >= 2
  /\ call.fits[1].UseCase # call.fits[2].UseCase
  /\ Deref(ret) = call.fits

-----------------------------------------------------------------------------
(* LlmModel.BestQuantForBudget(budgetGB, ctx) *)

BudgetSlack == 1

(* the fields of a model record that BestQuantForBudget reads, for models  *)
(* of 7 and 70 billion parameters, one of 600 million given as a raw       *)
(* count, one with a negative count and one without a count; the declared  *)
(* quantization may be of the hierarchy, outside it, or empty              *)
QuantModels ==
  {[ParametersRaw |-> p[1], ParameterCount |-> p[2], Quantization |-> q] :
     p \in {<<Nil, <<"7","B">>>>, <<Nil, <<"7","0","b">>>>, <<Some(600), <<"?">>>>,
            <<Nil, <<"-","7","B">>>>, <<Nil, <<>>>>},
     q \in {"Q4_K_M", "Q2_K", "F16", ""}}

Contexts == {512, 1536, 2048, 4096, 32768}

(* the budgets, in millionths of a GB: none, a negative one, a huge one,   *)
(* and those at and next to each estimate that the search compares with    *)
(* the budget                                                              *)
Budgets(m, ctx) ==
  {0 - MicroGB, 0, 1000 * MicroGB}
  \cup {EstimateMemoryGB(m, q, c) + d :
          q \in {QuantHierarchy[i] : i \in 1..Len(QuantHierarchy)},
          c \in {ctx, ctx \div 2, 1024},
          d \in (0 - BudgetSlack)..BudgetSlack}


InitQuant ==
  /\ call \in UNION {{[model |-> m, budgetGB |-> b, ctx |-> c] : b \in Budgets(m, c)} :
                       m \in QuantModels, c \in Contexts}
  /\ ret = Nil
  /\ goarch = "amd64"
  /\ system = Nil
  /\ NoAnalysis
  /\ NoAnalyzeAll
  /\ NoRanking
  /\ NoDetect

DoBestQuant ==
  /\ ret = Nil
  /\ ret' = Some(BestQuantForBudget(call.model, call.budgetGB, call.ctx))
  /\ UNCHANGED <<call, system, goarch, fitVars, allVars, rankVars, probe>>

NextQuant == DoBestQuant

SpecQuant == InitQuant /\ [][NextQuant]_vars

(* properties of the search (SpecQuant) *)

Estimate(q, c) == EstimateMemoryGB(call.model, q, c)

FitsAt(c) == {i \in 1..Len(QuantHierarchy) : Estimate(QuantHierarchy[i], c) <= call.budgetGB}

(* the best-fidelity quantization that fits at context c, with its estimate *)
FirstFitAt(c) ==
  LET i == CHOOSE k \in FitsAt(c) : \A j \in FitsAt(c) : k <= j
  IN  <<QuantHierarchy[i], Estimate(QuantHierarchy[i], c)>>

DeclaredDefault == <<call.model.Quantization, Estimate(call.model.Quantization, call.ctx)>>


(* C12: when some quantization of the hierarchy has an estimate at the      *)
(* given context within the budget, BestQuantForBudget returns the first    *)
(* such quantization in the order Q8_0, Q6_K, Q5_K_M, Q4_K_M, Q3_K_M, Q2_K  *)
(* with its estimate, and that estimate does not exceed the budget.         *)
C12_BestFidelityThatFits ==
  (ret # Nil /\ FitsAt(call.ctx) # {}) =>
    /\ Deref(ret) = FirstFitAt(call.ctx)
    /\ Deref(ret)[2] <= call.budgetGB

(* the best-fidelity quantization does not fit but a later one does, and   *)
(* the search returned that one                                            *)
C12_Witness ==
  /\ ret # Nil
  /\ FitsAt(call.ctx) # {}
  /\ 1 \notin FitsAt(call.ctx)
  /\ 6 \in FitsAt(call.ctx)
  /\ Deref(ret)[1] \notin {"Q8_0", "Q2_K"}
  /\ Deref(ret)[1] # call.model.Quantization

(* C13 as stated: when nothing fits at the given context, the scan is      *)
(* retried at max(ctx/2, 1024) for every context, and the first            *)
(* quantization that fits there is returned.                               *)
C13_RetryAtFlooredHalf ==
  (/\ ret # Nil
   /\ FitsAt(call.ctx) = {}
   /\ FitsAt(Max(call.ctx \div 2, 1024)) # {}) =>
    Deref(ret) = FirstFitAt(Max(call.ctx \div 2, 1024))

(* C13: when nothing fits at the given context, the scan is retried at     *)
(* ctx/2 only if ctx/2 >= 1024, and then the first quantization that fits  *)
(* at ctx/2 is returned; for a context below 2048 there is no retry, and   *)
(* the declared default with its estimate at the given context is          *)
(* returned even if a quantization would fit at context 1024.              *)
C13_RetryAtHalfFrom2048 ==
  (ret # Nil /\ FitsAt(call.ctx) = {}) =>
    IF call.ctx \div 2 >= 1024
    THEN FitsAt(call.ctx \div 2) # {} => Deref(ret) = FirstFitAt(call.ctx \div 2)
    ELSE Deref(ret) = DeclaredDefault

(* nothing fits at a context of at least 2048, something fits at half of   *)
(* it, and the search returned a quantization with its estimate at half    *)
C13_Witness ==
  /\ ret # Nil
  /\ call.ctx \div 2 >= 1024
  /\ FitsAt(call.ctx) = {}
  /\ FitsAt(call.ctx \div 2) # {}
  /\ Deref(ret) = FirstFitAt(call.ctx \div 2)
  /\ Deref(ret)[2] < Estimate(Deref(ret)[1], call.ctx)

(* the contexts at which the search scans: the given one, and half of it   *)
(* when that is at least 1024                                              *)
NothingFits ==
  /\ FitsAt(call.ctx) = {}
  /\ call.ctx \div 2 >= 1024 => FitsAt(call.ctx \div 2) = {}

(* C14 as stated: when nothing fits at either context the declared default *)
(* with its estimate at the given context is returned, and for every model *)
(* and budget the name returned is not empty and the memory figure is      *)
(* positive.                                                               *)
C14_NeverEmptyAlwaysPositive ==
  ret # Nil =>
    /\ NothingFits => Deref(ret) = DeclaredDefault
    /\ Deref(ret)[1] # ""
    /\ Deref(ret)[2] > 0

(* C14: when nothing fits at either context the declared default with its  *)
(* estimate at the given context is returned; the name returned is empty   *)
(* only when that fallback is taken and the model declares no              *)
(* quantization, and the memory figure is positive whenever the model's    *)
(* parameter count is not negative.                                        *)
C14_FallsBackToDeclaredDefault ==
  ret # Nil =>
    /\ NothingFits => Deref(ret) = DeclaredDefault
    /\ Deref(ret)[1] = "" => (NothingFits /\ call.model.Quantization = "")
    /\ ParamsB(call.model) >= 0 => Deref(ret)[2] > 0

(* with no budget at all, a model of 7 billion parameters got its declared *)
(* quantization, which is outside the hierarchy, with a positive estimate  *)
C14_Witness ==
  /\ ret # Nil
  /\ call.budgetGB <= 0
  /\ ParamsB(call.model) = 7000
  /\ NothingFits
  /\ call.model.Quantization = "F16"
  /\ Deref(ret) = DeclaredDefault
  /\ Deref(ret)[2] > call.budgetGB

-----------------------------------------------------------------------------
(* the quantization catalog: QuantBPP, QuantSpeedMultiplier and            *)
(* QuantQualityPenalty of one name                                         *)

(* the names looked up: the empty name, and every prefix followed by every *)
(* suffix, which gives the names the three switches list and many they do  *)
(* not                                                                     *)
QuantPrefixes == {"F", "BF", "Q2", "Q3", "Q4", "Q5", "Q6", "Q8", "IQ2", "q4", "unknown"}

QuantSuffixes == {"", "16", "32", "_0", "_1", "_K", "_K_M", "_K_S", "_k_m", "_XS"}

QuantNames == {""} \cup {p \o x : p \in QuantPrefixes, x \in QuantSuffixes}

InitCatalog ==
  /\ call \in [quant : QuantNames]
  /\ ret = Nil
  /\ goarch = "amd64"
  /\ system = Nil
  /\ NoAnalysis
  /\ NoAnalyzeAll
  /\ NoRanking
  /\ NoDetect

DoLookup ==
  /\ ret = Nil
  /\ ret' = Some([bpp     |-> QuantBPP(call.quant),
                  speed   |-> QuantSpeedMultiplier(call.quant),
                  penalty |-> QuantQualityPenalty(call.quant)])
  /\ UNCHANGED <<call, system, goarch, fitVars, allVars, rankVars, probe>>

NextCatalog == DoLookup

SpecCatalog == InitCatalog /\ [][NextCatalog]_vars

(* properties of the catalog (SpecCatalog) *)

(* the names that the switches of the three functions list; F32 is listed  *)
(* by QuantBPP alone                                                       *)
CatalogNames == {"F32", "F16", "BF16", "Q8_0", "Q6_K", "Q5_K_M", "Q4_K_M", "Q4_0",
                 "Q3_K_M", "Q2_K"}

(* C15 as stated: every name outside the catalog resolves to 0.58 bytes per *)
(* parameter, speed multiplier 1.15 and quality penalty -5.                 *)
C15_UnknownIsMidTier ==
  (ret # Nil /\ call.quant \notin CatalogNames) =>
    Deref(ret) = [bpp |-> 58, speed |-> 115, penalty |-> 0 - 5]

(* C15: every name outside the catalog resolves to 0.58 bytes per          *)
(* parameter, speed multiplier 1.0 and quality penalty -5; F32, which only *)
(* QuantBPP lists, resolves to 4.0 bytes per parameter and to the same     *)
(* defaults 1.0 and -5.                                                    *)
C15_UnknownIsDefault ==
  ret # Nil =>
    /\ call.quant \notin CatalogNames =>
         Deref(ret) = [bpp |-> 58, speed |-> 100, penalty |-> 0 - 5]
    /\ call.quant = "F32" =>
         Deref(ret) = [bpp |-> 400, speed |-> 100, penalty |-> 0 - 5]

(* a name that differs from a catalog name only in case was looked up *)
C15_Witness ==
  /\ ret # Nil
  /\ call.quant = "q4_k_m"
  /\ Deref(ret).speed # QuantSpeedMultiplier("Q4_K_M")
  /\ Deref(ret).bpp = QuantBPP("Q4_K_M")

-----------------------------------------------------------------------------
(* LlmModel.ParamsB() of one model record *)

MaxCountLen == 3

CountChars == {"0", "1", "5", "7", ".", "-", " ", "b", "B", "m", "M", "k", "?"}

(* the parameter-count strings of the unit test and of the dataset, and    *)
(* every string of CountChars up to MaxCountLen characters                 *)
ParameterCounts ==
  {<<"7","B">>,
   <<"7","0","B">>,
   <<"1",".","5","B">>,
   <<"6","0","0","M">>,
   <<"1","3","7","M">>,
   <<"1","3","b">>,
   <<" ","7","b"," ">>,
   <<"7"," ","B">>,
   <<"0",".","5","B">>,
   <<"-","7","B">>,
   <<"+","7","B">>,
   <<"7",".","B">>,
   <<".","5","B">>,
   <<"1",".","5",".","B">>,
   <<"?","?","B">>,
   <<"?","?","M">>,
   <<"7","B","B">>,
   <<"3","M","B">>,
   <<"7",".","0","B">>,
   <<"3","5","0","m">>}
  \cup UNION {[1..n -> CountChars] : n \in 0..MaxCountLen}

(* raw parameter integers, in millions: absent, 600 M, 7 B *)
ParametersRaws == {Nil, Some(600), Some(7000)}

InitParams ==
  /\ call \in [ParametersRaw : ParametersRaws, ParameterCount : ParameterCounts]
  /\ ret = Nil
  /\ goarch = "amd64"
  /\ system = Nil
  /\ NoAnalysis
  /\ NoAnalyzeAll
  /\ NoRanking
  /\ NoDetect

DoParamsB ==
  /\ ret = Nil
  /\ ret' = Some(ParamsB(call))
  /\ UNCHANGED <<call, system, goarch, fitVars, allVars, rankVars, probe>>

NextParams == DoParamsB

SpecParams == InitParams /\ [][NextParams]_vars

(* properties of ParamsB (SpecParams) *)

(* s := strings.TrimSpace(strings.ToUpper(m.ParameterCount)) *)
CountText == TrimSpace(ToUpper(call.ParameterCount))

(* strings.TrimSpace(s[:len(s)-1]): the text before the suffix *)
CountLead == TrimSpace(SubSeq(CountText, 1, Len(CountText) - 1))

(* the text before the suffix is a number *)
LeadIsNumber == ParseFloat(CountLead).ok

(* C16 as stated: with no raw parameter integer, ParamsB returns the       *)
(* number of billions for a number followed by B, the number divided by    *)
(* 1000 for a number followed by M, and 7.0 for every other string, those  *)
(* that end in B or M after something that is not a number included.       *)
C16_UnparseableIsSevenBillion ==
  (ret # Nil /\ call.ParametersRaw = Nil) =>
    Deref(ret) =
      IF HasSuffix(CountText, "B") /\ LeadIsNumber THEN ParseFloat(CountLead).val
      ELSE IF HasSuffix(CountText, "M") /\ LeadIsNumber
           THEN ParseFloat(CountLead).val \div 1000
      ELSE 7000

(* ParamsB ran on a string that ends in B after something that is not a    *)
(* number, and on no raw parameter integer                                 *)
C16_Witness ==
  /\ ret # Nil
  /\ call.ParametersRaw = Nil
  /\ HasSuffix(CountText, "B")
  /\ ~LeadIsNumber
  /\ Deref(ret) = 0

-----------------------------------------------------------------------------
(* UseCaseFromModel of one model record *)

MaxParts == 2

(* pieces of model names, each with a pattern the function looks for in    *)
(* the name or with none                                                   *)
NameParts ==
  {<<"e","m","b","e","d">>,
   <<"b","g","e","-","l","a","r","g","e">>,
   <<"s","t","a","r","c","o","d","e","r">>,
   <<"d","e","e","p","s","e","e","k","-","r","1">>,
   <<"l","l","a","m","a">>}

(* whole names: those of the unit test, and names with the patterns the    *)
(* function looks for in the use-case text only                            *)
Names ==
  {<<"x">>,
   <<"m","y","-","e","m","b","e","d","-","m","o","d","e","l">>,
   <<"B","A","A","I","/","b","g","e","-","l","a","r","g","e">>,
   <<"C","o","d","e">>,
   <<"v","i","s","i","o","n","-","c","h","a","t","-","7","b">>}

(* pieces of use-case texts, likewise *)
UseCaseParts ==
  {<<"e","m","b","e","d","d","i","n","g">>,
   <<"c","o","d","e">>,
   <<"v","i","s","i","o","n">>,
   <<"r","e","a","s","o","n","i","n","g">>,
   <<"c","h","a","t">>,
   <<"t","e","x","t"," ","g","e","n","e","r","a","t","i","o","n">>}

(* whole use-case texts: those of the unit test, and texts with the        *)
(* patterns the function looks for in the name only                        *)
UseCaseTexts ==
  {<<>>,
   <<"T","e","x","t"," ","e","m","b","e","d","d","i","n","g","s"," ","f","o","r"," ","R","A","G">>,
   <<"M","u","l","t","i","m","o","d","a","l">>,
   <<"c","h","a","i","n","-","o","f","-","t","h","o","u","g","h","t">>,
   <<"i","n","s","t","r","u","c","t","i","o","n"," ","f","o","l","l","o","w","i","n","g">>,
   <<"e","m","b","e","d">>,
   <<"b","g","e">>,
   <<"d","e","e","p","s","e","e","k","-","r","1">>}

RECURSIVE Joined(_, _)
(* the texts made of 1..n of the pieces, separated by a space *)
Joined(parts, n) ==
  IF n <= 1 THEN parts
  ELSE Joined(parts, n - 1) \cup {a \o <<" ">> \o b : a \in Joined(parts, n - 1), b \in parts}

InitUseCase ==
  /\ call \in [Name    : Names \cup Joined(NameParts, MaxParts),
               UseCase : UseCaseTexts \cup Joined(UseCaseParts, MaxParts)]
  /\ ret = Nil
  /\ goarch = "amd64"
  /\ system = Nil
  /\ NoAnalysis
  /\ NoAnalyzeAll
  /\ NoRanking
  /\ NoDetect

DoUseCaseFromModel ==
  /\ ret = Nil
  /\ ret' = Some(UseCaseFromModel(call))
  /\ UNCHANGED <<call, system, goarch, fitVars, allVars, rankVars, probe>>

NextUseCase == DoUseCaseFromModel

SpecUseCase == InitUseCase /\ [][NextUseCase]_vars

(* properties of UseCaseFromModel (SpecUseCase) *)

(* the categories in the order of the function's tests *)
Priority == <<UseCaseEmbedding, UseCaseCoding, UseCaseMultimodal, UseCaseReasoning,
              UseCaseChat>>

InName(pattern) == Contains(ToLower(call.Name), pattern)

InUseCase(pattern) == Contains(ToLower(call.UseCase), pattern)

(* the model of the call matches a pattern of the category *)
Matches(category) ==
  CASE category = UseCaseEmbedding ->
         \/ InUseCase(<<"e","m","b","e","d","d","i","n","g">>)
         \/ InName(<<"e","m","b","e","d">>)
         \/ InName(<<"b","g","e">>)
    [] category = UseCaseCoding ->
         InName(<<"c","o","d","e">>) \/ InUseCase(<<"c","o","d","e">>)
    [] category = UseCaseMultimodal ->
         InUseCase(<<"v","i","s","i","o","n">>) \/ InUseCase(<<"m","u","l","t","i","m","o","d","a","l">>)
    [] category = UseCaseReasoning ->
         \/ InUseCase(<<"r","e","a","s","o","n">>)
         \/ InUseCase(<<"c","h","a","i","n","-","o","f","-","t","h","o","u","g","h","t">>)
         \/ InName(<<"d","e","e","p","s","e","e","k","-","r","1">>)
    [] category = UseCaseChat ->
         InUseCase(<<"c","h","a","t">>) \/ InUseCase(<<"i","n","s","t","r","u","c","t","i","o","n">>)
    [] OTHER -> FALSE

Matched == {i \in 1..Len(Priority) : Matches(Priority[i])}

(* the earliest category of a set of positions in Priority, General for    *)
(* the empty set                                                           *)
EarliestOf(positions) ==
  IF positions = {} THEN UseCaseGeneral
  ELSE Priority[CHOOSE i \in positions : \A j \in positions : i <= j]

(* C17: UseCaseFromModel returns the earliest category, in the order       *)
(* embedding, coding, multimodal/vision, reasoning, chat/instruction,      *)
(* whose patterns the lower-cased name or use-case text matches, and       *)
(* General when they match none.                                           *)
C17_EarliestCategoryWins ==
  ret # Nil => Deref(ret) = EarliestOf(Matched)

(* a model that matches the patterns of coding (by its name), of embedding *)
(* (by its use-case text) and of chat was classified                       *)
C17_Witness ==
  /\ ret # Nil
  /\ {1, 2, 5} \subseteq Matched
  /\ InName(<<"c","o","d","e">>)
  /\ ~InName(<<"e","m","b","e","d">>)
  /\ Deref(ret) = UseCaseEmbedding

-----------------------------------------------------------------------------
(* the scoring statements of Analyze:                                      *)
(*   sc := computeScores(model, bestQuant, useCase, estimatedTPS,          *)
(*                       memRequired, memAvailable)                        *)
(*   score := weightedScore(sc, useCase)                                   *)

(* <<Name, UseCase>> of models of the six use cases *)
ScoredNames ==
  {<<<<"l","l","a","m","a","-","7","b">>, <<"t","e","x","t"," ","g","e","n","e","r","a","t","i","o","n">>>>,
   <<<<"S","t","a","r","C","o","d","e","r","-","7","B">>, <<>>>>,
   <<<<"B","A","A","I","/","b","g","e","-","l","a","r","g","e">>, <<>>>>,
   <<<<"x">>, <<"v","i","s","i","o","n">>>>,
   <<<<"d","e","e","p","s","e","e","k","-","r","1","-","7","b">>, <<>>>>,
   <<<<"x">>, <<"c","h","a","t">>>>}

(* the fields of the model that the scoring reads *)
ScoredModels ==
  {[Name           |-> row[1],
    UseCase        |-> row[2],
    ParametersRaw  |-> Nil,
    ParameterCount |-> count,
    ContextLength  |-> ctx] :
     row \in ScoredNames,
     count \in {<<"6","0","0","M">>, <<"7","B">>, <<"1","3","B">>, <<"7","0","B">>},
     ctx \in {256, 4096, 16384}}

(* speed estimates, in thousandths of a token per second: the floor 0.1,   *)
(* values below every target and a value above every target               *)
SpeedEstimates == {100, 13337, 39000, 250000}

(* the locals of Analyze before the scoring statements *)
ScoredFrames(m) ==
  {[ZeroFrame EXCEPT !.useCase      = UseCaseFromModel(m),
                     !.bestQuant    = quant,
                     !.estimatedTPS = tps,
                     !.memRequired  = required,
                     !.memAvailable = available] :
     quant \in {"Q8_0", "Q2_K", "F16"}, tps \in SpeedEstimates,
     required \in AvailableRAMValues, available \in AvailableRAMValues}

InitScore ==
  /\ call \in UNION {{[model |-> m, frame |-> f] : f \in ScoredFrames(m)} : m \in ScoredModels}
  /\ ret = Nil
  /\ goarch = "amd64"
  /\ system = Nil
  /\ NoAnalysis
  /\ NoAnalyzeAll
  /\ NoRanking
  /\ NoDetect

DoScore ==
  /\ ret = Nil
  /\ ret' = Some(scoreStmt(scoresStmt(call.model, call.frame)))
  /\ UNCHANGED <<call, system, goarch, fitVars, allVars, rankVars, probe>>

NextScore == DoScore

SpecScore == InitScore /\ [][NextScore]_vars

(* properties of the scores (SpecScore) *)

(* the sum of the four weights of a use case, in hundredths *)
WeightSum(useCase) ==
  Weights(useCase)[1] + Weights(useCase)[2] + Weights(useCase)[3] + Weights(useCase)[4]

(* sc.Quality*wq + sc.Speed*ws + sc.Fit*wf + sc.Context*wc, in units of    *)
(* 10^-5 points                                                            *)
WeightedSum(sc, useCase) ==
  sc.Quality * Weights(useCase)[1] + sc.Speed * Weights(useCase)[2]
    + sc.Fit * Weights(useCase)[3] + sc.Context * Weights(useCase)[4]

(* score, in tenths of a point, is raw rounded to one decimal, halves up *)
RoundsToTenth(raw, score) ==
  /\ score * 10000 - 5000 <= raw
  /\ raw < score * 10000 + 5000

(* C18: each of the four sub-scores lies in [0,100]; the composite score   *)
(* is their sum weighted by the weights of the model's use case, rounded   *)
(* to one decimal; the four weights of each of the six use cases sum to 1; *)
(* and the composite score lies in [0,100].                                *)
C18_WeightedSumOfBoundedScores ==
  /\ \A u \in UseCases : WeightSum(u) = 100
  /\ ret # Nil =>
       /\ Deref(ret).useCase = UseCaseFromModel(call.model)
       /\ \A k \in {"Quality", "Speed", "Fit", "Context"} : Deref(ret).sc[k] \in SubScores
       /\ RoundsToTenth(WeightedSum(Deref(ret).sc, Deref(ret).useCase), Deref(ret).score)
       /\ Deref(ret).score \in 0..1000

(* a reasoning model was scored, its fit score is neither 0 nor 100, and   *)
(* its weighted sum was rounded up                                         *)
C18_Witness ==
  /\ ret # Nil
  /\ Deref(ret).useCase = UseCaseReasoning
  /\ Deref(ret).sc.Fit \in 60001..99999
  /\ Deref(ret).sc.Speed \in 1..99999
  /\ Deref(ret).score * 10000 > WeightedSum(Deref(ret).sc, UseCaseReasoning)

-----------------------------------------------------------------------------
(* properties of the speed estimate (SpecFit) *)

(* k of the snapshot's backend *)
BackendK(backend) ==
  CASE backend = BackendCuda -> 220
    [] backend = BackendMetal -> 160
    [] backend = BackendRocm -> 180
    [] backend = BackendVulkan -> 150
    [] backend = BackendSycl -> 100
    [] backend = BackendCpuArm -> 90
    [] OTHER -> 70

(* the CPU-specific k of the build *)
CpuK(GOARCH) == IF GOARCH = "arm64" THEN 90 ELSE 70

(* the factors, in tenths: 1.1 from 8 cores on; the run-mode penalty *)
CoresFactor(sys) == IF sys.TotalCPUCores >= 8 THEN 11 ELSE 10

ModePenalty(runMode) ==
  CASE runMode = RunModeMoeOffload -> 8
    [] runMode = RunModeCpuOffload -> 5
    [] runMode = RunModeCpuOnly -> 3
    [] OTHER -> 10

(* k / max(params, 0.1) x multiplier x cores factor x penalty, floored at  *)
(* 0.1, in thousandths of a token per second                               *)
SpeedFormula(k, penalty) ==
  Max((k * QuantSpeedMultiplier(Result.BestQuant) * CoresFactor(system) * penalty * 100)
        \div Max(ParamsB(model), 100),
      100)

(* C19 as stated: the speed estimate is k / max(params, 0.1) x the         *)
(* quantization's speed multiplier, x 1.1 from 8 CPU cores on, x the       *)
(* run-mode penalty (GPU 1, MoE offload 0.8, CPU+GPU offload 0.5, CPU-only *)
(* 0.3), floored at 0.1; k is the backend's constant, and for a CPU-only   *)
(* result the CPU-specific constant, with the penalty 0.3 still applied.   *)
C19_CpuOnlyKeepsPenalty ==
  Analyzed =>
    Result.EstimatedTPS =
      SpeedFormula(IF Result.RunMode = RunModeCpuOnly THEN CpuK(goarch)
                   ELSE BackendK(system.Backend),
                   ModePenalty(Result.RunMode))

(* a CPU-only result on a machine with a GPU backend: the estimate is the  *)
(* CPU-specific one without the penalty, above the floor                   *)
C19_Witness ==
  /\ Analyzed
  /\ Result.RunMode = RunModeCpuOnly
  /\ system.HasGPU
  /\ Result.EstimatedTPS = SpeedFormula(CpuK(goarch), 10)
  /\ Result.EstimatedTPS > SpeedFormula(CpuK(goarch), ModePenalty(RunModeCpuOnly))
  /\ SpeedFormula(CpuK(goarch), ModePenalty(RunModeCpuOnly)) > 100

-----------------------------------------------------------------------------
(* package hardware: Detect() *)

MaxGpus == 3

(* a GpuInfo's VRAM, absent counted as 0 *)
VramOrZero(g) == IF g.VRAMGB # Nil THEN Deref(g.VRAMGB) ELSE 0

(* the less function of Detect's sort with the comparison turned round *)
gpuLessAscending(gi, gj) == VramOrZero(gi) < VramOrZero(gj)

(* the less function of Detect's sort: return vj < vi *)
gpuLess(gi, gj) == VramOrZero(gj) < VramOrZero(gi)

(* sort.Slice(gpus, less) on a slice of at most 12 elements: the insertion *)
(* sort of RankModelsByFit, with Detect's less function                    *)
RECURSIVE gpuInsertLeft(_, _)
gpuInsertLeft(s, j) ==
  IF j > 1 /\ gpuLess(s[j], s[j - 1]) THEN gpuInsertLeft(Swap(s, j, j - 1), j - 1) ELSE s

RECURSIVE gpuInsertionSort(_, _)
gpuInsertionSort(s, i) ==
  IF i > Len(s) THEN s ELSE gpuInsertionSort(gpuInsertLeft(s, i), i + 1)

sortGpus(gpus) == gpuInsertionSort(gpus, 2)

(* backendCPU(cpuName) under a build for GOARCH *)
backendCPU(cpuName, GOARCH) ==
  IF Contains(ToLower(cpuName), <<"a","p","p","l","e">>) \/ GOARCH = "arm64"
  THEN BackendCpuArm
  ELSE BackendCpuX86

(* availableRAMFallback(totalGB): vm_stat's figure on darwin when it is    *)
(* positive, else 80 percent of the total                                  *)
availableRAMFallback(totalGB, GOOS, vmStat) ==
  IF GOOS = "darwin" /\ vmStat > 0 THEN vmStat ELSE (totalGB * 8) \div 10

UnknownCPU == <<"U","n","k","n","o","w","n"," ","C","P","U">>

(* cpuName from cpu.Info() *)
cpuNameOf(infos) ==
  IF Len(infos) > 0
  THEN IF infos[1].ModelName = <<>> THEN infos[1].VendorID ELSE infos[1].ModelName
  ELSE UnknownCPU

(* the SystemSpecs that Detect builds from the sorted list *)
specsOf(p, availableRAMGB, cpuName, gpus, GOARCH) ==
  [TotalRAMGB     |-> p.Total,
   AvailableRAMGB |-> availableRAMGB,
   TotalCPUCores  |-> p.NumCPU,
   CPUName        |-> cpuName,
   HasGPU         |-> Len(gpus) > 0,
   GpuVRAMGB      |-> IF Len(gpus) > 0 THEN gpus[1].VRAMGB ELSE Nil,
   GpuName        |-> IF Len(gpus) > 0 THEN Some(gpus[1].Name) ELSE Nil,
   GpuCount       |-> IF Len(gpus) > 0 THEN gpus[1].Count ELSE 0,
   UnifiedMemory  |-> IF Len(gpus) > 0 THEN gpus[1].UnifiedMemory ELSE FALSE,
   Backend        |-> IF Len(gpus) > 0 THEN gpus[1].Backend ELSE backendCPU(cpuName, GOARCH),
   Gpus           |-> gpus]

(* Detect() on the readings p of the machine: the pair (specs, err) *)
Detect(p, GOARCH) ==
  IF p.memErr THEN [specs |-> Nil, err |-> Some("mem")]
  ELSE [specs |-> Some(specsOf(p,
                               IF p.Available = 0 /\ p.Total > 0
                               THEN availableRAMFallback(p.Total, p.GOOS, p.vmStat)
                               ELSE p.Available,
                               cpuNameOf(p.cpuInfos),
                               sortGpus(p.gpus),
                               GOARCH)),
        err   |-> Nil]

(* the GPUs that the probes of detectAllGPUs report: two NVIDIA cards, an  *)
(* AMD and an Intel GPU of unknown VRAM, and an Apple GPU on unified       *)
(* memory                                                                  *)
GpuInfos ==
  {[Name |-> "NVIDIA GeForce RTX 4090", VRAMGB |-> Some(24 * MicroGB), Backend |-> BackendCuda,
    Count |-> 2, UnifiedMemory |-> FALSE],
   [Name |-> "NVIDIA GeForce RTX 3070", VRAMGB |-> Some(8 * MicroGB), Backend |-> BackendCuda,
    Count |-> 1, UnifiedMemory |-> FALSE],
   [Name |-> "AMD Radeon", VRAMGB |-> Nil, Backend |-> BackendRocm,
    Count |-> 1, UnifiedMemory |-> FALSE],
   [Name |-> "Intel Arc", VRAMGB |-> Nil, Backend |-> BackendSycl,
    Count |-> 1, UnifiedMemory |-> FALSE],
   [Name |-> "Apple M2", VRAMGB |-> Some(8 * MicroGB), Backend |-> BackendMetal,
    Count |-> 1, UnifiedMemory |-> TRUE]}

GpuLists == UNION {[1..n -> GpuInfos] : n \in 0..MaxGpus}

(* cpu.Info(): nothing, a named CPU, a CPU known by its vendor only *)
CpuInfos ==
  {<<>>,
   <<[ModelName |-> <<"A","p","p","l","e"," ","M","2">>, VendorID |-> <<"A","p","p","l","e">>]>>,
   <<[ModelName |-> <<>>, VendorID |-> <<"G","e","n","u","i","n","e","I","n","t","e","l">>]>>}

(* mem.VirtualMemory() and vm_stat: <<Total, Available, GOOS, vmStat>> *)
MemReadings ==
  {<<16 * MicroGB, 8 * MicroGB, "linux", 0>>,
   <<16 * MicroGB, 0, "linux", 0>>,
   <<16 * MicroGB, 0, "darwin", 6 * MicroGB>>,
   <<16 * MicroGB, 0, "darwin", 0>>,
   <<0, 0, "linux", 0>>}

Probes ==
  {[memErr |-> e, Total |-> r[1], Available |-> r[2], GOOS |-> r[3], vmStat |-> r[4],
    NumCPU |-> 8, cpuInfos |-> c, gpus |-> g] :
     e \in BOOLEAN, r \in MemReadings, c \in CpuInfos, g \in GpuLists}

InitDetect ==
  /\ probe \in {Some(p) : p \in Probes}
  /\ goarch \in {"amd64", "arm64"}
  /\ system = Nil
  /\ NoAnalysis
  /\ NoAnalyzeAll
  /\ NoRanking
  /\ NoCall

DoDetect ==
  /\ ret = Nil
  /\ ret' = Some(Detect(Deref(probe), goarch))
  /\ UNCHANGED <<call, system, goarch, fitVars, allVars, rankVars, probe>>

NextDetect == DoDetect

SpecDetect == InitDetect /\ [][NextDetect]_vars

(* properties of Detect (SpecDetect) *)

(* Detect returned a snapshot and no error *)
Detected == ret # Nil /\ Deref(ret).err = Nil

Snapshot == Deref(Deref(ret).specs)

(* C20: in every snapshot that Detect returns the GPU list is sorted by    *)
(* VRAM, non-increasing, absent VRAM counting as 0; the mirrored fields of *)
(* the primary GPU (VRAM, name, count, unified-memory flag, backend) are   *)
(* those of the first element; has-GPU is true exactly when the list is    *)
(* not empty; and without a GPU the backend is a CPU backend.              *)
C20_SortedWithMirroredPrimary ==
  Detected =>
    /\ \A i, j \in 1..Len(Snapshot.Gpus) :
         i < j => VramOrZero(Snapshot.Gpus[i]) >= VramOrZero(Snapshot.Gpus[j])
    /\ Snapshot.HasGPU <=> Len(Snapshot.Gpus) > 0
    /\ Len(Snapshot.Gpus) > 0 =>
         /\ Snapshot.GpuVRAMGB = Snapshot.Gpus[1].VRAMGB
         /\ Snapshot.GpuName = Some(Snapshot.Gpus[1].Name)
         /\ Snapshot.GpuCount = Snapshot.Gpus[1].Count
         /\ Snapshot.UnifiedMemory = Snapshot.Gpus[1].UnifiedMemory
         /\ Snapshot.Backend = Snapshot.Gpus[1].Backend
    /\ Len(Snapshot.Gpus) = 0 =>
         Snapshot.Backend = backendCPU(Snapshot.CPUName, goarch)

(* Detect returned a snapshot of three GPUs that the probes reported in    *)
(* another order, the first of them without a VRAM figure                  *)
C20_Witness ==
  /\ Detected
  /\ Len(Snapshot.Gpus) = 3
  /\ Deref(probe).gpus[1].VRAMGB = Nil
  /\ Snapshot.Gpus # Deref(probe).gpus
  /\ Snapshot.Gpus[3].VRAMGB = Nil
  /\ VramOrZero(Snapshot.Gpus[1]) > VramOrZero(Snapshot.Gpus[2])

-----------------------------------------------------------------------------
(* package hardware: the GPU probes of detectAllGPUs, run one after the    *)
(* other by Detect                                                         *)

MaxWmiGpus == 2

NameRtx4090 == <<"N","V","I","D","I","A"," ","G","e","F","o","r","c","e"," ","R","T","X"," ","4","0","9","0">>

NameRtx3070 == <<"N","V","I","D","I","A"," ","G","e","F","o","r","c","e"," ","R","T","X"," ","3","0","7","0">>

NameRadeon == <<"A","M","D"," ","R","a","d","e","o","n"," ","R","X"," ","7","9","0","0"," ","X","T","X">>

NameAmdGpu == <<"A","M","D"," ","G","P","U">>

NameNvidiaGpu == <<"N","V","I","D","I","A"," ","G","P","U">>

NameIntelArc == <<"I","n","t","e","l"," ","A","r","c">>

NameAppleSilicon == <<"A","p","p","l","e"," ","S","i","l","i","c","o","n">>

(* estimateVRAMFromName, in millionths of a GB, for the names above *)
estimateVRAMFromName(name) ==
  IF Contains(ToLower(name), <<"4","0","9","0">>) THEN 24 * MicroGB
  ELSE IF Contains(ToLower(name), <<"3","0","7","0">>) THEN 8 * MicroGB
  ELSE IF Contains(ToLower(name), <<"7","9","0","0"," ","x","t","x">>) THEN 24 * MicroGB
  ELSE 0

(* the loop of detectNvidiaGPUs over the lines of nvidia-smi from line i   *)
(* on: a line is <<VRAM in MB, name>>, its VRAM Nil when Sscanf fails; acc *)
(* is <<totalVRAMMB, count, firstName>>                                    *)
RECURSIVE nvidiaScan(_, _, _)
nvidiaScan(lines, i, acc) ==
  IF i > Len(lines) THEN acc
  ELSE IF lines[i][1] = Nil THEN nvidiaScan(lines, i + 1, acc)
  ELSE nvidiaScan(lines, i + 1,
                  <<acc[1] + Deref(lines[i][1]),
                    acc[2] + 1,
                    IF acc[3] = <<>> THEN TrimSpace(lines[i][2]) ELSE acc[3]>>)

(* the descriptor detectNvidiaGPUs returns for the totals of the loop *)
nvidiaInfo(name, vramGB, count) ==
  <<[Name          |-> name,
     VRAMGB        |-> IF vramGB >= MicroGB \div 10
                       THEN Some(vramGB)
                       ELSE IF estimateVRAMFromName(name) > 0
                            THEN Some(estimateVRAMFromName(name)) ELSE Nil,
     Backend       |-> BackendCuda,
     Count         |-> count,
     UnifiedMemory |-> FALSE]>>

nvidiaTotals(acc) ==
  IF acc[2] = 0 THEN <<>>
  ELSE nvidiaInfo(IF acc[3] = <<>> THEN NameNvidiaGpu ELSE acc[3],
                  MulDiv(acc[1], MicroGB, 1024), acc[2])

(* detectNvidiaGPUs on the outcome o of nvidia-smi *)
detectNvidiaGPUs(o) ==
  IF o.err THEN <<>> ELSE nvidiaTotals(nvidiaScan(o.lines, 1, <<0, 0, <<>>>>))

(* detectAMDROCM on the outcome o of rocm-smi, as a slice of 0 or 1        *)
(* descriptors: o.name is Nil when no product line is found, else the text *)
(* after the colon of the last product line read                           *)
detectAMDROCM(o) ==
  IF o.err THEN <<>>
  ELSE <<[Name          |-> IF o.name = Nil THEN NameAmdGpu ELSE Deref(o.name),
          VRAMGB        |-> o.vram,
          Backend       |-> BackendRocm,
          Count         |-> 1,
          UnifiedMemory |-> FALSE]>>

(* detectAMDSysfs, as a slice of 0 or 1 descriptors *)
detectAMDSysfs(o, GOOS) ==
  IF GOOS # "linux" \/ o.err \/ ~o.found THEN <<>>
  ELSE <<[Name |-> NameAmdGpu, VRAMGB |-> Nil, Backend |-> BackendVulkan,
          Count |-> 1, UnifiedMemory |-> FALSE]>>

inferGPUBackend(name) ==
  IF \E s \in {<<"n","v","i","d","i","a">>, <<"g","e","f","o","r","c","e">>, <<"q","u","a","d","r","o">>, <<"t","e","s","l","a">>, <<"r","t","x">>} : Contains(ToLower(name), s)
  THEN BackendCuda
  ELSE IF \E s \in {<<"a","m","d">>, <<"r","a","d","e","o","n">>, <<"a","t","i">>} : Contains(ToLower(name), s)
  THEN BackendVulkan
  ELSE IF \E s \in {<<"i","n","t","e","l">>, <<"a","r","c">>} : Contains(ToLower(name), s)
  THEN BackendSycl
  ELSE BackendVulkan

(* parseWindowsGPUList from entry i of the controllers on *)
RECURSIVE parseWindowsGPUList(_, _)
parseWindowsGPUList(names, i) ==
  IF i > Len(names) THEN <<>>
  ELSE IF \/ TrimSpace(names[i]) = <<>>
          \/ \E s \in {<<"m","i","c","r","o","s","o","f","t">>, <<"b","a","s","i","c">>, <<"v","i","r","t","u","a","l">>} :
                Contains(ToLower(TrimSpace(names[i])), s)
       THEN parseWindowsGPUList(names, i + 1)
       ELSE <<[Name          |-> TrimSpace(names[i]),
               VRAMGB        |-> IF estimateVRAMFromName(names[i]) > 0
                                 THEN Some(estimateVRAMFromName(names[i])) ELSE Nil,
               Backend       |-> inferGPUBackend(TrimSpace(names[i])),
               Count         |-> 1,
               UnifiedMemory |-> FALSE]>>
            \o parseWindowsGPUList(names, i + 1)

detectWindowsGPU(o, GOOS) ==
  IF GOOS # "windows" \/ o.err THEN <<>> ELSE parseWindowsGPUList(o.names, 1)

(* the test of detectAllGPUs that a listed descriptor e makes wmi a        *)
(* duplicate, looking one way only                                         *)
isDupOneWay(e, wmi) == Contains(ToLower(e.Name), ToLower(wmi.Name))

(* the test of detectAllGPUs that a listed descriptor e makes wmi a        *)
(* duplicate                                                               *)
isDup(e, wmi) ==
  \/ Contains(ToLower(e.Name), ToLower(wmi.Name))
  \/ Contains(ToLower(wmi.Name), ToLower(e.Name))

(* the loop of detectAllGPUs over detectWindowsGPU() from entry i on *)
RECURSIVE appendWindows(_, _, _)
appendWindows(gpus, wmis, i) ==
  IF i > Len(wmis) THEN gpus
  ELSE IF \E k \in 1..Len(gpus) : isDup(gpus[k], wmis[i])
       THEN appendWindows(gpus, wmis, i + 1)
       ELSE appendWindows(Append(gpus, wmis[i]), wmis, i + 1)

(* the Intel step of detectAllGPUs *)
appendIntel(gpus, o, GOOS) ==
  IF GOOS = "linux" /\ o.found
     /\ ~\E k \in 1..Len(gpus) : Contains(ToLower(gpus[k].Name), <<"i","n","t","e","l">>)
  THEN Append(gpus, [Name |-> NameIntelArc, VRAMGB |-> o.vram, Backend |-> BackendSycl,
                     Count |-> 1, UnifiedMemory |-> FALSE])
  ELSE gpus

(* detectAppleGPU: the total RAM when system_profiler names an Apple GPU *)
detectAppleGPU(o, GOOS, totalRAMGB) ==
  IF GOOS # "darwin" \/ o.err \/ ~o.found THEN 0 ELSE totalRAMGB

(* the Apple step of detectAllGPUs *)
appendApple(gpus, vram, cpuName) ==
  IF vram > 0
  THEN Append(gpus, [Name          |-> IF Contains(ToLower(cpuName), <<"a","p","p","l","e">>)
                                       THEN cpuName ELSE NameAppleSilicon,
                     VRAMGB        |-> Some(vram),
                     Backend       |-> BackendMetal,
                     Count         |-> 1,
                     UnifiedMemory |-> TRUE])
  ELSE gpus

(* the step of Detect that follows the step named at, whose probe         *)
(* returned found, were a probe that finds nothing to end the enumeration  *)
nextProbeStopAtNone(at, found) ==
  IF found = <<>> THEN "return"
  ELSE CASE at = "nvidia" -> "rocm"
         [] at = "rocm" -> "windows"
         [] at = "sysfs" -> "windows"
         [] at = "windows" -> "intel"
         [] at = "intel" -> "apple"
         [] OTHER -> "return"

(* the step of Detect that follows the step named at, whose probe         *)
(* returned found: detectAMDSysfs is called only when detectAMDROCM        *)
(* returned nil                                                            *)
nextProbe(at, found) ==
  CASE at = "nvidia" -> "rocm"
    [] at = "rocm" -> IF found = <<>> THEN "sysfs" ELSE "windows"
    [] at = "sysfs" -> "windows"
    [] at = "windows" -> "intel"
    [] at = "intel" -> "apple"
    [] OTHER -> "return"

(* the locals of Detect after the probe at f.pc returned found and gpus    *)
(* became the list of detectAllGPUs                                        *)
afterProbe(f, found, gpus) ==
  [pc |-> nextProbe(f.pc, found), gpus |-> gpus, attempted |-> Append(f.attempted, f.pc)]

(* outcomes of nvidia-smi: an error, no line, one card, a line that does   *)
(* not parse before a card, two cards of one model, two cards of two       *)
(* models, a card whose memory reads 0                                     *)
NvidiaOutcomes ==
  {[err |-> TRUE, lines |-> <<>>]}
  \cup {[err |-> FALSE, lines |-> l] :
          l \in {<<>>,
                 <<<<Some(24576), NameRtx4090>>>>,
                 <<<<Nil, NameRtx3070>>, <<Some(24576), NameRtx4090>>>>,
                 <<<<Some(24576), NameRtx4090>>, <<Some(24576), NameRtx4090>>>>,
                 <<<<Some(24576), NameRtx4090>>, <<Some(8192), NameRtx3070>>>>,
                 <<<<Some(0), NameRtx3070>>>>}}

(* outcomes of rocm-smi: an error, a card with no product line, with an    *)
(* empty product line, with a product name                                 *)
RocmOutcomes ==
  {[err |-> TRUE, name |-> Nil, vram |-> Nil]}
  \cup {[err |-> FALSE, name |-> n, vram |-> Some(24 * MicroGB)] :
          n \in {Nil, Some(<<>>), Some(NameRadeon)}}

SysfsOutcomes == {[err |-> TRUE, found |-> FALSE], [err |-> FALSE, found |-> TRUE]}

(* names of Win32_VideoController *)
WmiNames ==
  {NameRtx4090, <<"g","e","f","o","r","c","e"," ","r","t","x"," ","4","0","9","0">>, <<"I","n","t","e","l","(","R",")"," ","U","H","D"," ","G","r","a","p","h","i","c","s">>,
   <<"M","i","c","r","o","s","o","f","t"," ","B","a","s","i","c"," ","D","i","s","p","l","a","y"," ","A","d","a","p","t","e","r">>}

WmiOutcomes ==
  {[err |-> TRUE, names |-> <<>>]}
  \cup {[err |-> FALSE, names |-> l] : l \in UNION {[1..n -> WmiNames] : n \in 0..MaxWmiGpus}}

IntelOutcomes == {[found |-> FALSE, vram |-> Nil], [found |-> TRUE, vram |-> Nil],
                  [found |-> TRUE, vram |-> Some(16 * MicroGB)]}

AppleOutcomes == {[err |-> TRUE, found |-> FALSE], [err |-> FALSE, found |-> TRUE]}

(* the tools that an operating system does not have fail *)
NoWmi == [err |-> TRUE, names |-> <<>>]

NoSysfs == [err |-> TRUE, found |-> FALSE]

NoIntel == [found |-> FALSE, vram |-> Nil]

NoApple == [err |-> TRUE, found |-> FALSE]

(* the readings of a machine: those of Probes, with the outcome of each    *)
(* GPU probe in place of the list of detectAllGPUs                         *)
ProbeOutcomes ==
  {[memErr |-> e, Total |-> 16 * MicroGB, Available |-> 8 * MicroGB, GOOS |-> os[1],
    vmStat |-> 0, NumCPU |-> 8, cpuInfos |-> c, gpus |-> <<>>,
    nvidia |-> n, rocm |-> r, sysfs |-> os[2], wmi |-> os[3], intel |-> os[4],
    apple |-> os[5]] :
     e \in BOOLEAN, c \in {i \in CpuInfos : Len(i) = 0 \/ i[1].ModelName # <<>>},
     n \in NvidiaOutcomes, r \in RocmOutcomes,
     os \in {<<"linux", s, NoWmi, i, NoApple>> : s \in SysfsOutcomes, i \in IntelOutcomes}
            \cup {<<"windows", NoSysfs, w, NoIntel, NoApple>> : w \in WmiOutcomes}
            \cup {<<"darwin", NoSysfs, NoWmi, NoIntel, a>> : a \in AppleOutcomes}}

InitGpus ==
  /\ probe \in {Some(p) : p \in ProbeOutcomes}
  /\ call = [pc |-> "mem", gpus |-> <<>>, attempted |-> <<>>]
  /\ ret = Nil
  /\ goarch = "amd64"
  /\ system = Nil
  /\ NoAnalysis
  /\ NoAnalyzeAll
  /\ NoRanking

(* v, err := mem.VirtualMemory(); if err != nil { return nil, ... } *)
DetectMem ==
  /\ call.pc = "mem"
  /\ IF Deref(probe).memErr
     THEN /\ ret' = Some(Detect(Deref(probe), goarch))
          /\ call' = [call EXCEPT !.pc = "done"]
     ELSE /\ ret' = ret
          /\ call' = [call EXCEPT !.pc = "nvidia"]
  /\ UNCHANGED <<system, goarch, fitVars, allVars, rankVars, probe>>

ProbeNvidia ==
  /\ call.pc = "nvidia"
  /\ call' = afterProbe(call, detectNvidiaGPUs(Deref(probe).nvidia),
                        call.gpus \o detectNvidiaGPUs(Deref(probe).nvidia))
  /\ UNCHANGED <<ret, system, goarch, fitVars, allVars, rankVars, probe>>

ProbeAMDROCM ==
  /\ call.pc = "rocm"
  /\ call' = afterProbe(call, detectAMDROCM(Deref(probe).rocm),
                        call.gpus \o detectAMDROCM(Deref(probe).rocm))
  /\ UNCHANGED <<ret, system, goarch, fitVars, allVars, rankVars, probe>>

ProbeAMDSysfs ==
  /\ call.pc = "sysfs"
  /\ call' = afterProbe(call, detectAMDSysfs(Deref(probe).sysfs, Deref(probe).GOOS),
                        call.gpus \o detectAMDSysfs(Deref(probe).sysfs, Deref(probe).GOOS))
  /\ UNCHANGED <<ret, system, goarch, fitVars, allVars, rankVars, probe>>

ProbeWindows ==
  /\ call.pc = "windows"
  /\ call' = afterProbe(call, detectWindowsGPU(Deref(probe).wmi, Deref(probe).GOOS),
                        appendWindows(call.gpus,
                                      detectWindowsGPU(Deref(probe).wmi, Deref(probe).GOOS), 1))
  /\ UNCHANGED <<ret, system, goarch, fitVars, allVars, rankVars, probe>>

ProbeIntel ==
  /\ call.pc = "intel"
  /\ call' = afterProbe(call,
                        IF Deref(probe).GOOS = "linux" /\ Deref(probe).intel.found
                        THEN <<NameIntelArc>> ELSE <<>>,
                        appendIntel(call.gpus, Deref(probe).intel, Deref(probe).GOOS))
  /\ UNCHANGED <<ret, system, goarch, fitVars, allVars, rankVars, probe>>

ProbeApple ==
  /\ call.pc = "apple"
  /\ call' = afterProbe(call,
                        IF detectAppleGPU(Deref(probe).apple, Deref(probe).GOOS,
                                          Deref(probe).Total) > 0
                        THEN <<NameAppleSilicon>> ELSE <<>>,
                        appendApple(call.gpus,
                                    detectAppleGPU(Deref(probe).apple, Deref(probe).GOOS,
                                                   Deref(probe).Total),
                                    cpuNameOf(Deref(probe).cpuInfos)))
  /\ UNCHANGED <<ret, system, goarch, fitVars, allVars, rankVars, probe>>

(* the sort, the mirrored fields and the return of Detect *)
DetectReturn ==
  /\ call.pc = "return"
  /\ ret' = Some(Detect([Deref(probe) EXCEPT !.gpus = call.gpus], goarch))
  /\ call' = [call EXCEPT !.pc = "done"]
  /\ UNCHANGED <<system, goarch, fitVars, allVars, rankVars, probe>>

NextGpus ==
  \/ DetectMem
  \/ ProbeNvidia
  \/ ProbeAMDROCM
  \/ ProbeAMDSysfs
  \/ ProbeWindows
  \/ ProbeIntel
  \/ ProbeApple
  \/ DetectReturn

SpecGpus == InitGpus /\ [][NextGpus]_vars

(* properties of the GPU probes (SpecGpus) *)

(* the readings of the machine *)
Readings == Deref(probe)

(* the probe of a step failed: its tool is missing or returned an error,   *)
(* or, for Intel, the lookup found nothing                                 *)
ProbeFailed(step) ==
  CASE step = "nvidia" -> Readings.nvidia.err
    [] step = "rocm" -> Readings.rocm.err
    [] step = "sysfs" -> Readings.GOOS # "linux" \/ Readings.sysfs.err
    [] step = "windows" -> Readings.GOOS # "windows" \/ Readings.wmi.err
    [] step = "intel" -> Readings.GOOS # "linux" \/ ~Readings.intel.found
    [] step = "apple" -> Readings.GOOS # "darwin" \/ Readings.apple.err
    [] OTHER -> FALSE

ProbeSteps == {"nvidia", "rocm", "sysfs", "windows", "intel", "apple"}

(* the probes in the order of detectAllGPUs; the sysfs read is the else    *)
(* branch of the rocm-smi probe                                            *)
AttemptOrder ==
  <<"nvidia", "rocm">>
  \o (IF detectAMDROCM(Readings.rocm) = <<>> THEN <<"sysfs">> ELSE <<>>)
  \o <<"windows", "intel", "apple">>

(* Detect returned *)
Returned == ret # Nil

(* C21: Detect fails only when RAM detection fails.  Whichever GPU probes  *)
(* fail, a failed probe adds no descriptor to the list and is followed by  *)
(* the next probe of the order; every probe of the order is attempted      *)
(* once, none twice; and Detect returns a snapshot whose GPU list holds    *)
(* the descriptors gathered from the probes that succeeded.                *)
C21_OnlyRamFailureIsFatal ==
  /\ [](/\ \A i \in 1..Len(call.attempted) :
             i <= Len(AttemptOrder) /\ call.attempted[i] = AttemptOrder[i]
        /\ Returned =>
             /\ Deref(ret).err # Nil <=> Readings.memErr
             /\ Deref(ret).specs = Nil <=> Readings.memErr
             /\ ~Readings.memErr =>
                  /\ call.attempted = AttemptOrder
                  /\ Len(Snapshot.Gpus) = Len(call.gpus)
                  /\ \A g \in {call.gpus[i] : i \in 1..Len(call.gpus)} :
                       Cardinality({i \in 1..Len(call.gpus) : call.gpus[i] = g})
                         = Cardinality({i \in 1..Len(call.gpus) : Snapshot.Gpus[i] = g}))
  /\ [][(call.pc \in ProbeSteps /\ ProbeFailed(call.pc)) =>
          /\ call'.gpus = call.gpus
          /\ call'.pc \in ProbeSteps \cup {"return"}
          /\ call'.pc # call.pc]_vars

(* on a Linux machine nvidia-smi, rocm-smi and the sysfs read failed, the  *)
(* Intel lookup found a GPU, and Detect returned a snapshot with it        *)
C21_Witness ==
  /\ Returned
  /\ Readings.GOOS = "linux"
  /\ ProbeFailed("nvidia") /\ ProbeFailed("rocm") /\ ProbeFailed("sysfs")
  /\ ~ProbeFailed("intel")
  /\ call.attempted = <<"nvidia", "rocm", "sysfs", "windows", "intel", "apple">>
  /\ Deref(ret).err = Nil
  /\ Len(Snapshot.Gpus) = 1
  /\ Snapshot.Gpus[1].Name = NameIntelArc

(* one name contains the other, case-insensitively *)
NamesOverlap(g, h) ==
  \/ Contains(ToLower(g.Name), ToLower(h.Name))
  \/ Contains(ToLower(h.Name), ToLower(g.Name))

(* C22 as stated: whichever probes produced them, the list never holds two *)
(* descriptors of which one's name contains the other's,                   *)
(* case-insensitively.                                                     *)
C22_NoNameContainsAnother ==
  \A i, j \in 1..Len(call.gpus) : i # j => ~NamesOverlap(call.gpus[i], call.gpus[j])

(* C22: the Windows query's descriptors are the ones deduplicated by       *)
(* name-substring match: the step keeps the list it finds and appends a    *)
(* descriptor of the query only if its name neither contains nor is        *)
(* contained in, case-insensitively, the name of a descriptor already      *)
(* listed, so every descriptor of the query overlaps with a listed one or  *)
(* is listed itself; the Intel descriptor is appended only if no listed    *)
(* name contains "intel"; the descriptors of nvidia-smi, of the AMD probes *)
(* and of the Apple probe are appended without any comparison.             *)
C22_WindowsQueryDeduplicated ==
  [][/\ call.pc = "windows" =>
          /\ SubSeq(call'.gpus, 1, Len(call.gpus)) = call.gpus
          /\ \A j \in (Len(call.gpus) + 1)..Len(call'.gpus) :
               \A i \in 1..(j - 1) : ~NamesOverlap(call'.gpus[i], call'.gpus[j])
          /\ \A w \in 1..Len(detectWindowsGPU(Readings.wmi, Readings.GOOS)) :
               \E i \in 1..Len(call'.gpus) :
                  NamesOverlap(call'.gpus[i],
                               detectWindowsGPU(Readings.wmi, Readings.GOOS)[w])
     /\ call.pc = "intel" =>
          /\ SubSeq(call'.gpus, 1, Len(call.gpus)) = call.gpus
          /\ Len(call'.gpus) > Len(call.gpus) <=>
               /\ ~ProbeFailed("intel")
               /\ \A i \in 1..Len(call.gpus) :
                     ~Contains(ToLower(call.gpus[i].Name), <<"i","n","t","e","l">>)
     /\ (call.pc = "rocm" /\ ~ProbeFailed("rocm")) =>
          call'.gpus = call.gpus \o detectAMDROCM(Readings.rocm)]_vars

(* on Windows nvidia-smi reported a card, the query reported the same card *)
(* under a shorter name in lower case and an Intel GPU, and the list has   *)
(* the card once and the Intel GPU                                         *)
C22_Witness ==
  /\ call.pc = "intel"
  /\ Readings.GOOS = "windows"
  /\ ~ProbeFailed("nvidia") /\ ~ProbeFailed("windows")
  /\ Readings.wmi.names = <<<<"g","e","f","o","r","c","e"," ","r","t","x"," ","4","0","9","0">>, <<"I","n","t","e","l","(","R",")"," ","U","H","D"," ","G","r","a","p","h","i","c","s">>>>
  /\ Len(call.gpus) = 2
  /\ call.gpus[1].Name = NameRtx4090
  /\ call.gpus[2].Name = <<"I","n","t","e","l","(","R",")"," ","U","H","D"," ","G","r","a","p","h","i","c","s">>

(* properties of the nvidia-smi probe (SpecGpus) *)

(* the lines of nvidia-smi that parse as a device *)
Devices == SelectSeq(Readings.nvidia.lines, LAMBDA l : l[1] # Nil)

(* the devices of one model name *)
DevicesNamed(name) == SelectSeq(Devices, LAMBDA l : TrimSpace(l[2]) = name)

(* the VRAM of a list of devices, summed, in millionths of a GB *)
SummedVRAM(devices) == MulDiv(nvidiaScan(devices, 1, <<0, 0, <<>>>>)[1], MicroGB, 1024)

(* the list after the nvidia-smi probe, which is the first to append *)
NvidiaProbed == call.pc = "rocm" /\ ~Readings.nvidia.err

(* C23 as stated: the nvidia-smi probe makes one descriptor of the devices *)
(* that share a model name; its count is the number of those devices and   *)
(* its VRAM their summed VRAM (the estimate by name standing in for a sum  *)
(* below 0.1 GB), and every device is described by the descriptor of its   *)
(* name.                                                                   *)
C23_DescriptorPerModel ==
  NvidiaProbed =>
    /\ \A k \in 1..Len(call.gpus) :
         /\ call.gpus[k].Count = Len(DevicesNamed(call.gpus[k].Name))
         /\ SummedVRAM(DevicesNamed(call.gpus[k].Name)) >= MicroGB \div 10 =>
              call.gpus[k].VRAMGB = Some(SummedVRAM(DevicesNamed(call.gpus[k].Name)))
    /\ \A d \in 1..Len(Devices) :
         \E k \in 1..Len(call.gpus) : call.gpus[k].Name = TrimSpace(Devices[d][2])

(* nvidia-smi listed an RTX 4090 of 24 GB and an RTX 3070 of 8 GB, and the *)
(* probe returned one descriptor: two RTX 4090 with 32 GB                  *)
C23_Witness ==
  /\ NvidiaProbed
  /\ Len(Devices) = 2
  /\ Devices[1][2] = NameRtx4090 /\ Devices[2][2] = NameRtx3070
  /\ Len(call.gpus) = 1
  /\ call.gpus[1].Name = NameRtx4090
  /\ call.gpus[1].Count = 2
  /\ call.gpus[1].VRAMGB = Some(32 * MicroGB)

-----------------------------------------------------------------------------
(* package hardware: IsRunningInWSL(), called from several goroutines.     *)
(* wslOnce.Do(f) is sync.Once: a caller that loads done = 0 takes the      *)
(* mutex, tests done again, runs f, stores done = 1 and unlocks; a caller  *)
(* that loads done = 1 returns at once.                                    *)

MaxGoroutines == 2

MaxCalls == 2

Goroutines == 1..MaxGoroutines

(* the function passed to wslOnce.Do: the value it leaves in wslVal *)
detectWSL(env, wslVal) ==
  IF env.GOOS # "linux" THEN wslVal
  ELSE IF env.WSL_INTEROP \/ env.WSL_DISTRO_NAME THEN TRUE
  ELSE IF env.osrelease \/ env.version THEN TRUE
  ELSE wslVal

(* where a caller of Do goes after loading done, had Once no mutex and no  *)
(* second test                                                             *)
onceFastPathUnlocked(done) == IF done THEN "read" ELSE "body"

(* where a caller of Do goes after loading done *)
onceFastPath(done) == IF done THEN "read" ELSE "lock"

(* the environment: GOOS, whether each variable is set, whether each file  *)
(* has the marker "microsoft"                                              *)
Environments ==
  [GOOS : {"linux", "windows"}, WSL_INTEROP : BOOLEAN, WSL_DISTRO_NAME : {FALSE},
   osrelease : BOOLEAN, version : {FALSE}]

InitWSL ==
  /\ probe \in {Some(e) : e \in Environments}
  /\ call = [done |-> FALSE, mu |-> 0, wslVal |-> FALSE, runs |-> 0,
             pc |-> [g \in Goroutines |-> "idle"], calls |-> [g \in Goroutines |-> 0]]
  /\ ret = <<>>
  /\ goarch = "amd64"
  /\ system = Nil
  /\ NoAnalysis
  /\ NoAnalyzeAll
  /\ NoRanking

(* goroutine g calls IsRunningInWSL() *)
WSLCall(g) ==
  /\ call.pc[g] = "idle"
  /\ call.calls[g] < MaxCalls
  /\ call' = [call EXCEPT !.pc[g] = "load", !.calls[g] = @ + 1]
  /\ UNCHANGED <<ret, system, goarch, fitVars, allVars, rankVars, probe>>

(* Do: if o.done.Load() == 0 { o.doSlow(f) } *)
OnceLoad(g) ==
  /\ call.pc[g] = "load"
  /\ call' = [call EXCEPT !.pc[g] = onceFastPath(call.done)]
  /\ UNCHANGED <<ret, system, goarch, fitVars, allVars, rankVars, probe>>

(* doSlow: o.m.Lock() *)
OnceLock(g) ==
  /\ call.pc[g] = "lock"
  /\ call.mu = 0
  /\ call' = [call EXCEPT !.mu = g, !.pc[g] = "test"]
  /\ UNCHANGED <<ret, system, goarch, fitVars, allVars, rankVars, probe>>

(* doSlow: if o.done.Load() == 0 { ... f() }, else the deferred Unlock *)
OnceTest(g) ==
  /\ call.pc[g] = "test"
  /\ call' = IF call.done
             THEN [call EXCEPT !.mu = 0, !.pc[g] = "read"]
             ELSE [call EXCEPT !.pc[g] = "body"]
  /\ UNCHANGED <<ret, system, goarch, fitVars, allVars, rankVars, probe>>

(* f(): the detection *)
OnceBody(g) ==
  /\ call.pc[g] = "body"
  /\ call' = [call EXCEPT !.wslVal = detectWSL(Deref(probe), call.wslVal),
                          !.runs = @ + 1,
                          !.pc[g] = "store"]
  /\ UNCHANGED <<ret, system, goarch, fitVars, allVars, rankVars, probe>>

(* the deferred o.done.Store(1) and o.m.Unlock() *)
OnceStore(g) ==
  /\ call.pc[g] = "store"
  /\ call' = [call EXCEPT !.done = TRUE,
                          !.mu = IF call.mu = g THEN 0 ELSE @,
                          !.pc[g] = "read"]
  /\ UNCHANGED <<ret, system, goarch, fitVars, allVars, rankVars, probe>>

(* return wslVal *)
WSLReturn(g) ==
  /\ call.pc[g] = "read"
  /\ ret' = Append(ret, call.wslVal)
  /\ call' = [call EXCEPT !.pc[g] = "idle"]
  /\ UNCHANGED <<system, goarch, fitVars, allVars, rankVars, probe>>

NextWSL ==
  \E g \in Goroutines :
     \/ WSLCall(g)
     \/ OnceLoad(g)
     \/ OnceLock(g)
     \/ OnceTest(g)
     \/ OnceBody(g)
     \/ OnceStore(g)
     \/ WSLReturn(g)

SpecWSL == InitWSL /\ [][NextWSL]_vars

(* properties of IsRunningInWSL (SpecWSL) *)

(* what the detection finds in the environment *)
InWSL ==
  /\ Deref(probe).GOOS = "linux"
  /\ \/ Deref(probe).WSL_INTEROP \/ Deref(probe).WSL_DISTRO_NAME
     \/ Deref(probe).osrelease \/ Deref(probe).version

(* C24: the detection runs at most once per process; every call returns    *)
(* the same value, the one the detection found; and a caller reads the     *)
(* flag only after the single initialization has completed.                *)
C24_DetectedOnce ==
  /\ call.runs <= 1
  /\ \A i \in 1..Len(ret) : ret[i] = InWSL
  /\ \A g \in Goroutines : call.pc[g] = "read" => (call.done /\ call.runs = 1)
  /\ call.done => call.wslVal = InWSL

(* under WSL every goroutine has called once and returned, and the         *)
(* detection ran once                                                      *)
C24_Witness ==
  /\ InWSL
  /\ Len(ret) >= 2
  /\ call.runs = 1
  /\ \A g \in Goroutines : call.calls[g] = 1 /\ call.pc[g] = "idle"

-----------------------------------------------------------------------------
(* package models (db.go): the model database built from the embedded      *)
(* dataset and the user cache file.  A model record keeps the name, the    *)
(* provider and one optional field; a JSON object holds each key or not    *)
(* (Nil), and may carry a key the decoder does not know.  A file is the    *)
(* list of its objects; a file that is not a JSON list of such objects is  *)
(* not parseable.                                                          *)

MaxListLen == 2

MaxAppends == 2

LlmModel(name, provider, minVRAM) ==
  [Name |-> name, Provider |-> provider, MinVRAMGB |-> minVRAM]

(* json.Marshal of an LlmModel: min_vram_gb has omitempty *)
marshalModel(m) ==
  [name |-> Some(m.Name), provider |-> Some(m.Provider),
   min_vram_gb |-> m.MinVRAMGB, extra |-> Nil]

(* json.Unmarshal into hfModelEntry or LlmModel: an absent key leaves the  *)
(* zero value, an unknown key is ignored                                   *)
unmarshalEntry(o) ==
  [Name |-> IF o.name = Nil THEN "" ELSE Deref(o.name),
   Provider |-> IF o.provider = Nil THEN "" ELSE Deref(o.provider),
   MinVRAMGB |-> o.min_vram_gb]

entryToModel(e) ==
  [Name |-> e.Name, Provider |-> e.Provider, MinVRAMGB |-> e.MinVRAMGB]

marshalList(list) == [i \in 1..Len(list) |-> marshalModel(list[i])]

unmarshalList(objs) == [i \in 1..Len(objs) |-> unmarshalEntry(objs[i])]

(* byName after both loops of mergeModels: the last record of the name in  *)
(* base followed by overlay                                                *)
byName(both, name) ==
  both[CHOOSE i \in 1..Len(both) :
         /\ both[i].Name = name
         /\ \A j \in 1..Len(both) : both[j].Name = name => j <= i]

(* byName had the overlay been entered before the base *)
byNameBaseWins(both, name, baseLen) ==
  IF \E i \in 1..baseLen : both[i].Name = name
  THEN both[CHOOSE i \in 1..baseLen :
              /\ both[i].Name = name
              /\ \A j \in 1..baseLen : both[j].Name = name => j <= i]
  ELSE byName(both, name)

RECURSIVE appendUnseen(_, _, _, _)
(* the last loop of mergeModels: overlay records whose name was not seen *)
appendUnseen(overlay, i, seen, out) ==
  IF i > Len(overlay) THEN out
  ELSE IF overlay[i].Name \in seen THEN appendUnseen(overlay, i + 1, seen, out)
  ELSE appendUnseen(overlay, i + 1, seen \cup {overlay[i].Name}, Append(out, overlay[i]))

mergeModelsBaseWins(base, overlay) ==
  appendUnseen(overlay, 1, {base[i].Name : i \in 1..Len(base)},
               [i \in 1..Len(base) |-> byNameBaseWins(base \o overlay, base[i].Name, Len(base))])

mergeModels(base, overlay) ==
  appendUnseen(overlay, 1, {base[i].Name : i \in 1..Len(base)},
               [i \in 1..Len(base) |-> byName(base \o overlay, base[i].Name)])

(* loadEmbedded: the embedded list, or the decoding error *)
loadEmbedded(bundled) ==
  IF bundled = Nil THEN [models |-> Nil, err |-> Some("embedded")]
  ELSE [models |-> Some([i \in 1..Len(Deref(bundled)) |->
                           entryToModel(unmarshalEntry(Deref(bundled)[i]))]),
        err |-> Nil]

(* the cache file as NewDB and AppendModelToCache meet it: no config       *)
(* directory, no file, a file that cannot be read, a file that does not    *)
(* parse, or a list of objects                                             *)
CacheFile(kind, objs) == [kind |-> kind, objs |-> objs]

(* NewDB had a cache that does not parse been an error *)
NewDBStrict(fs) ==
  IF loadEmbedded(fs.bundled).err # Nil
  THEN [db |-> Nil, err |-> loadEmbedded(fs.bundled).err, warned |-> FALSE]
  ELSE IF fs.cache.kind \in {"nopath", "missing", "unreadable"}
  THEN [db |-> loadEmbedded(fs.bundled).models, err |-> Nil, warned |-> FALSE]
  ELSE IF fs.cache.kind = "corrupt"
  THEN [db |-> Nil, err |-> Some("cache"), warned |-> TRUE]
  ELSE [db |-> Some(mergeModels(Deref(loadEmbedded(fs.bundled).models),
                                [i \in 1..Len(fs.cache.objs) |->
                                   entryToModel(unmarshalEntry(fs.cache.objs[i]))])),
        err |-> Nil, warned |-> FALSE]

NewDB(fs) ==
  IF loadEmbedded(fs.bundled).err # Nil
  THEN [db |-> Nil, err |-> loadEmbedded(fs.bundled).err, warned |-> FALSE]
  ELSE IF fs.cache.kind \in {"nopath", "missing", "unreadable"}
  THEN [db |-> loadEmbedded(fs.bundled).models, err |-> Nil, warned |-> FALSE]
  ELSE IF fs.cache.kind = "corrupt"
  THEN [db |-> loadEmbedded(fs.bundled).models, err |-> Nil, warned |-> TRUE]
  ELSE [db |-> Some(mergeModels(Deref(loadEmbedded(fs.bundled).models),
                                [i \in 1..Len(fs.cache.objs) |->
                                   entryToModel(unmarshalEntry(fs.cache.objs[i]))])),
        err |-> Nil, warned |-> FALSE]

(* the overlay AppendModelToCache starts from: empty unless the file reads *)
(* and parses                                                              *)
cachedOverlay(cache) ==
  IF cache.kind = "list" THEN unmarshalList(cache.objs) ELSE <<>>

(* the loop of AppendModelToCache: the first record of the name is         *)
(* replaced, else the record is appended                                   *)
addOrReplace(overlay, m) ==
  IF \E i \in 1..Len(overlay) : overlay[i].Name = m.Name
  THEN [overlay EXCEPT ![CHOOSE i \in 1..Len(overlay) :
                           /\ overlay[i].Name = m.Name
                           /\ \A j \in 1..(i - 1) : overlay[j].Name # m.Name] = m]
  ELSE Append(overlay, m)

(* AppendModelToCache: the file afterwards and the error; written is       *)
(* whether MkdirAll and WriteFile succeed                                  *)
AppendModelToCache(cache, m, written) ==
  IF cache.kind = "nopath" THEN [cache |-> cache, err |-> Some("path")]
  ELSE IF ~written THEN [cache |-> cache, err |-> Some("write")]
  ELSE [cache |-> CacheFile("list", marshalList(addOrReplace(cachedOverlay(cache), m))),
        err |-> Nil]

ModelNames == {"org/a", "org/b", "org/c"}

(* the records the dataset, the cache and the fetch client supply *)
DbRecords ==
  {LlmModel("org/a", "p", Nil), LlmModel("org/a", "q", Some(8)),
   LlmModel("org/b", "p", Nil), LlmModel("org/b", "q", Nil),
   LlmModel("org/c", "p", Some(8))}

RecordLists == UNION {[1..n -> DbRecords] : n \in 0..MaxListLen}

(* the embedded dataset names each model once *)
BundledLists ==
  {l \in RecordLists : \A i, j \in 1..Len(l) : l[i].Name = l[j].Name => i = j}

(* an object of a cache file edited by hand: a key nobody reads and no     *)
(* provider                                                                *)
HandObjects ==
  {[name |-> Some("org/b"), provider |-> Nil, min_vram_gb |-> Nil, extra |-> Some("note")]}

(* the objects a cache file is made of: records written by                 *)
(* AppendModelToCache and objects edited by hand                           *)
CacheObjects ==
  {marshalModel(m) : m \in {r \in DbRecords : r.Name # "org/b"}} \cup HandObjects

CacheFiles ==
  {CacheFile(k, <<>>) : k \in {"nopath", "missing", "unreadable", "corrupt"}}
    \cup {CacheFile("list", l) : l \in UNION {[1..n -> CacheObjects] : n \in 0..MaxListLen}}

FileSystems ==
  [bundled : {Nil} \cup {Some(marshalList(l)) : l \in BundledLists}, cache : CacheFiles]

InitDB ==
  /\ probe \in {Some(fs) : fs \in FileSystems}
  /\ call = [op |-> "start", m |-> Nil, before |-> Nil, err |-> Nil, appends |-> 0]
  /\ ret = Nil
  /\ goarch = "amd64"
  /\ system = Nil
  /\ NoAnalysis
  /\ NoAnalyzeAll
  /\ NoRanking

DoNewDB ==
  /\ call.op # "newdb"
  /\ ret' = Some(NewDB(Deref(probe)))
  /\ call' = [call EXCEPT !.op = "newdb", !.m = Nil, !.before = Nil, !.err = Nil]
  /\ UNCHANGED <<system, goarch, fitVars, allVars, rankVars, probe>>

DoAppendModelToCache ==
  /\ call.appends < MaxAppends
  /\ \E m \in DbRecords, written \in BOOLEAN :
       /\ probe' = Some([Deref(probe) EXCEPT
                           !.cache = AppendModelToCache(Deref(probe).cache, m, written).cache])
       /\ call' = [op |-> "append", m |-> Some(m), before |-> Some(Deref(probe).cache),
                   err |-> AppendModelToCache(Deref(probe).cache, m, written).err,
                   appends |-> call.appends + 1]
  /\ ret' = Nil
  /\ UNCHANGED <<system, goarch, fitVars, allVars, rankVars>>

NextDB == DoNewDB \/ DoAppendModelToCache

SpecDB == InitDB /\ [][NextDB]_vars


(* properties of the model database (SpecDB) *)

(* the embedded records, when the dataset parses *)
Bundled == Deref(loadEmbedded(Deref(probe).bundled).models)

(* the records of the cache file, when it is a list *)
Overlay == unmarshalList(Deref(probe).cache.objs)

(* NewDB has returned a database *)
Built == ret # Nil /\ Deref(ret).db # Nil

Merged == Deref(Deref(ret).db)

NamesOf(list) == {list[i].Name : i \in 1..Len(list)}

Named(list, name) == {i \in 1..Len(list) : list[i].Name = name}

FirstNamed(list, name) == CHOOSE i \in Named(list, name) : \A j \in Named(list, name) : i <= j

(* C25: in the merged list every name of the overlay has exactly one       *)
(* record, one of the overlay's; a name only in the bundled dataset keeps  *)
(* its bundled record; the bundled names come first in bundled order and   *)
(* the overlay-only names follow in overlay order.                         *)
C25_OverlayWinsByName ==
  (Built /\ Deref(probe).cache.kind = "list") =>
    /\ \A name \in NamesOf(Overlay) :
         /\ Cardinality(Named(Merged, name)) = 1
         /\ \A i \in Named(Merged, name) : \E j \in Named(Overlay, name) : Merged[i] = Overlay[j]
    /\ \A i \in 1..Len(Bundled) :
         Bundled[i].Name \notin NamesOf(Overlay) =>
           /\ Cardinality(Named(Merged, Bundled[i].Name)) = 1
           /\ \A k \in Named(Merged, Bundled[i].Name) : Merged[k] = Bundled[i]
    /\ NamesOf(Merged) = NamesOf(Bundled) \cup NamesOf(Overlay)
    /\ Len(Merged) >= Len(Bundled)
    /\ \A i \in 1..Len(Bundled) : Merged[i].Name = Bundled[i].Name
    /\ \A i, j \in (Len(Bundled) + 1)..Len(Merged) :
         i < j => FirstNamed(Overlay, Merged[i].Name) < FirstNamed(Overlay, Merged[j].Name)

(* the overlay replaces a bundled record by a different one and brings a   *)
(* name the bundled dataset does not have                                  *)
C25_Witness ==
  /\ Built
  /\ Deref(probe).cache.kind = "list"
  /\ \E i \in 1..Len(Bundled) :
       /\ Bundled[i].Name \in NamesOf(Overlay)
       /\ Merged[i] # Bundled[i]
  /\ Len(Merged) > Len(Bundled)
  /\ Len(Bundled) = MaxListLen


(* C26: when the cache file is missing, unreadable or not parseable, NewDB *)
(* returns exactly the bundled list and no error; NewDB fails only when    *)
(* the bundled dataset does not parse, whatever the cache.                 *)
C26_CacheNeverFails ==
  ret # Nil =>
    /\ (Deref(ret).err # Nil) <=> (Deref(probe).bundled = Nil)
    /\ (Deref(ret).err = Nil) <=> (Deref(ret).db # Nil)
    /\ (Deref(probe).bundled # Nil /\ Deref(probe).cache.kind # "list") =>
         /\ Deref(ret).err = Nil
         /\ Merged = unmarshalList(Deref(Deref(probe).bundled))

(* NewDB met a cache that does not parse and returned the bundled records *)
C26_Witness ==
  /\ Built
  /\ Deref(probe).cache.kind = "corrupt"
  /\ Len(Merged) = MaxListLen
  /\ Deref(ret).warned


(* AppendModelToCache has just succeeded *)
Appended == call.op = "append" /\ call.err = Nil

(* the overlay the successful call started from *)
OverlayBefore == cachedOverlay(Deref(call.before))

(* the records of a list under other names, in their order *)
Others(list, name) == SelectSeq(list, LAMBDA r : r.Name # name)

(* the record a database built now holds under the name is the one given *)
ResolvesTo(m) ==
  NewDB(Deref(probe)).db # Nil =>
    /\ Named(Deref(NewDB(Deref(probe)).db), m.Name) # {}
    /\ \A i \in Named(Deref(NewDB(Deref(probe)).db), m.Name) :
         Deref(NewDB(Deref(probe)).db)[i] = m

(* C30: after AppendModelToCache(m) succeeds the cache holds exactly one   *)
(* record named m.Name, equal to m; the other cached records are kept in   *)
(* their order; a database built afterwards resolves m.Name to m, also     *)
(* when the bundled dataset has the name; a second call with the same m    *)
(* leaves the cache unchanged.                                             *)
C30_AddsOrReplacesByName ==
  Appended =>
    /\ Cardinality(Named(Overlay, Deref(call.m).Name)) = 1
    /\ \A i \in Named(Overlay, Deref(call.m).Name) : Overlay[i] = Deref(call.m)
    /\ Others(Overlay, Deref(call.m).Name) = Others(OverlayBefore, Deref(call.m).Name)
    /\ ResolvesTo(Deref(call.m))
    /\ AppendModelToCache(Deref(probe).cache, Deref(call.m), TRUE).cache = Deref(probe).cache

(* what AppendModelToCache does for every cache: the first record of the   *)
(* name becomes m, the rest is kept, a second call changes nothing; with   *)
(* at most one record of the name before, one remains and it resolves      *)
FirstRecordReplaced ==
  Appended =>
    /\ Named(Overlay, Deref(call.m).Name) # {}
    /\ Overlay[FirstNamed(Overlay, Deref(call.m).Name)] = Deref(call.m)
    /\ Others(Overlay, Deref(call.m).Name) = Others(OverlayBefore, Deref(call.m).Name)
    /\ AppendModelToCache(Deref(probe).cache, Deref(call.m), TRUE).cache = Deref(probe).cache
    /\ Cardinality(Named(OverlayBefore, Deref(call.m).Name)) <= 1 =>
         /\ Cardinality(Named(Overlay, Deref(call.m).Name)) = 1
         /\ ResolvesTo(Deref(call.m))

(* the call succeeded on a cache that held the name twice, and the bundled *)
(* dataset has the name too                                                *)
C30_Witness ==
  /\ Appended
  /\ Cardinality(Named(OverlayBefore, Deref(call.m).Name)) = 2
  /\ Deref(probe).bundled # Nil
  /\ Deref(call.m).Name \in NamesOf(Bundled)
  /\ ~ResolvesTo(Deref(call.m))

-----------------------------------------------------------------------------
(* package cli: the --limit / -n flag of the default --cli listing         *)
(* (runDefault), pole (runPole) and recommend (runRecommend).  The flag is *)
(* a uint and the list length an int; both keep a width of UintBits bits.  *)
(* The list is the ranked (and, if requested, filtered) list, its entries  *)
(* numbered by rank.                                                       *)

UintBits == 4

MaxTotal == 6

UintMax == 2^UintBits - 1

(* int(limit): the same bits read as a signed number *)
toInt(limit) == IF limit >= 2^(UintBits - 1) THEN limit - 2^UintBits ELSE limit

RecommendDefaultLimit == 5

(* fits[:limit]: the prefix, or the run-time panic when limit is beyond    *)
(* the length                                                              *)
sliceTo(list, limit) ==
  IF limit <= Len(list)
  THEN [out |-> Some(SubSeq(list, 1, limit)), panic |-> FALSE]
  ELSE [out |-> Nil, panic |-> TRUE]

(* runDefault and runPole: if limit > 0 && len(fits) > int(limit) *)
limitFits(list, limit) ==
  IF limit > 0 /\ Len(list) > toInt(limit)
  THEN sliceTo(list, limit)
  ELSE [out |-> Some(list), panic |-> FALSE]

(* runRecommend: if uint(len(fits)) > limit *)
limitRecommended(list, limit) ==
  IF Len(list) > limit
  THEN sliceTo(list, limit)
  ELSE [out |-> Some(list), panic |-> FALSE]

(* the limit runPole uses: its own flag when given, else the global one *)
poleLimit(flags) == IF flags.changed THEN flags.limit ELSE flags.globalLimit

(* the limit runRecommend uses: its own flag, 5 when not given *)
recommendLimit(flags) == IF flags.changed THEN flags.limit ELSE RecommendDefaultLimit

LimitValues == {0, 1, 2, 3, RecommendDefaultLimit, 2^(UintBits - 1), UintMax}

Commands == {"default", "pole", "recommend"}

Invocations ==
  [cmd : Commands, globalLimit : LimitValues, changed : BOOLEAN, limit : LimitValues,
   total : 0..MaxTotal]

InitLimit ==
  /\ call \in Invocations
  /\ ret = Nil
  /\ goarch = "amd64"
  /\ system = Nil
  /\ NoAnalysis
  /\ NoAnalyzeAll
  /\ NoRanking
  /\ NoDetect

(* runDefault with --cli *)
RunDefault ==
  /\ ret = Nil
  /\ call.cmd = "default"
  /\ ret' = Some(limitFits([i \in 1..call.total |-> i], call.globalLimit))
  /\ UNCHANGED <<call, system, goarch, fitVars, allVars, rankVars, probe>>

RunPole ==
  /\ ret = Nil
  /\ call.cmd = "pole"
  /\ ret' = Some(limitFits([i \in 1..call.total |-> i], poleLimit(call)))
  /\ UNCHANGED <<call, system, goarch, fitVars, allVars, rankVars, probe>>

RunRecommend ==
  /\ ret = Nil
  /\ call.cmd = "recommend"
  /\ ret' = Some(limitRecommended([i \in 1..call.total |-> i], recommendLimit(call)))
  /\ UNCHANGED <<call, system, goarch, fitVars, allVars, rankVars, probe>>

NextLimit == RunDefault \/ RunPole \/ RunRecommend

SpecLimit == InitLimit /\ [][NextLimit]_vars

(* properties of the limit (SpecLimit) *)

(* the limit in force for the command *)
LimitInForce ==
  IF call.cmd = "default" THEN call.globalLimit
  ELSE IF call.cmd = "pole" THEN poleLimit(call)
  ELSE recommendLimit(call)

RankedList == [i \in 1..call.total |-> i]

(* C27: for each command a limit of 0 outputs the whole ranked list and a  *)
(* positive limit n outputs its first min(n, total) entries.               *)
C27_ZeroMeansNoLimit ==
  ret # Nil =>
    /\ ~Deref(ret).panic
    /\ Deref(ret).out # Nil
    /\ LimitInForce = 0 => Deref(Deref(ret).out) = RankedList
    /\ LimitInForce > 0 =>
         Deref(Deref(ret).out) = SubSeq(RankedList, 1, Min(LimitInForce, call.total))

(* what all three commands do: a positive limit that fits an int outputs   *)
(* the first min(n, total) entries; 0 outputs everything under the default *)
(* listing and pole                                                        *)
PositiveLimitTakesPrefix ==
  ret # Nil =>
    /\ (LimitInForce > 0 /\ toInt(LimitInForce) > 0) =>
         /\ ~Deref(ret).panic
         /\ Deref(Deref(ret).out) = SubSeq(RankedList, 1, Min(LimitInForce, call.total))
    /\ (LimitInForce = 0 /\ call.cmd # "recommend") =>
         /\ ~Deref(ret).panic
         /\ Deref(Deref(ret).out) = RankedList
    /\ (toInt(LimitInForce) > 0 \/ call.cmd = "recommend") => ~Deref(ret).panic

(* recommend was run with -n 0 over a ranked list that is not empty and    *)
(* output nothing                                                          *)
C27_Witness ==
  /\ ret # Nil
  /\ call.cmd = "recommend"
  /\ call.changed
  /\ call.limit = 0
  /\ call.total = MaxTotal
  /\ Deref(ret).out = Some(<<>>)

-----------------------------------------------------------------------------
(* package tui: the App state and its operations.  The App is held in      *)
(* call; AllFits is the ranked list NewApp is given; FilteredFits holds    *)
(* indices into AllFits, counted from 0 as in the code.                    *)

MaxQueryLen == 2

PageSize == 10

LongListLen == 12

FitFilterAll == "All"

FitFilterRunnable == "Runnable"

FitFilterMarginal == "Marginal"

(* FitFilter.Next *)
FitFilterNext(f) ==
  IF f = FitFilterAll THEN FitFilterRunnable
  ELSE IF f = FitFilterRunnable THEN FitPerfect
  ELSE IF f = FitPerfect THEN FitGood
  ELSE IF f = FitGood THEN FitFilterMarginal
  ELSE FitFilterAll

(* byte order of the characters used: digits, upper case, lower case *)
runeRank(c) ==
  IF IsDigit(c) THEN IndexIn(c, Digits)
  ELSE IF IndexIn(c, UpperLetters) > 0 THEN 20 + IndexIn(c, UpperLetters)
  ELSE 60 + IndexIn(c, LowerLetters)

(* s < t for Go strings *)
stringLess(s, t) ==
  \E k \in 1..(Len(t)) :
     /\ \A j \in 1..(k - 1) : j <= Len(s) /\ s[j] = t[j]
     /\ k - 1 <= Len(s)
     /\ (k > Len(s) \/ runeRank(s[k]) < runeRank(t[k]))

minString(set) == CHOOSE s \in set : \A t \in set : s = t \/ stringLess(s, t)

RECURSIVE sortStrings(_)
(* sort.Strings over the keys of providerSet *)
sortStrings(set) ==
  IF set = {} THEN <<>>
  ELSE <<minString(set)>> \o sortStrings(set \ {minString(set)})

(* ApplyFilters: matchesSearch *)
matchesSearch(query, m) ==
  \/ query = <<>>
  \/ Contains(ToLower(m.Name), query)
  \/ Contains(ToLower(m.Provider), query)
  \/ Contains(ToLower(m.ParameterCount), query)
  \/ Contains(ToLower(m.UseCase), query)

(* ApplyFilters: providerIdx, from 1; 0 when the provider is not listed *)
providerIdx(providers, p) ==
  IF \E j \in 1..Len(providers) : providers[j] = p
  THEN CHOOSE j \in 1..Len(providers) :
         providers[j] = p /\ \A k \in 1..(j - 1) : providers[k] # p
  ELSE 0

matchesProvider(a, m) ==
  \/ providerIdx(a.Providers, m.Provider) = 0
  \/ /\ providerIdx(a.Providers, m.Provider) <= Len(a.SelectedProviders)
     /\ a.SelectedProviders[providerIdx(a.Providers, m.Provider)]

matchesFit(filter, level) ==
  IF filter = FitFilterAll THEN TRUE
  ELSE IF filter = FitFilterRunnable THEN level # FitTooTight
  ELSE IF filter = FitPerfect THEN level = FitPerfect
  ELSE IF filter = FitGood THEN level = FitGood
  ELSE IF filter = FitFilterMarginal THEN level = FitMarginal
  ELSE TRUE

RECURSIVE filterFrom(_, _, _)
(* the loop of ApplyFilters over AllFits[i..] *)
filterFrom(a, i, out) ==
  IF i > Len(a.AllFits) THEN out
  ELSE IF /\ matchesSearch(ToLower(a.SearchQuery), a.AllFits[i].Model)
          /\ matchesProvider(a, a.AllFits[i].Model)
          /\ matchesFit(a.FitFilter, a.AllFits[i].FitLevel)
       THEN filterFrom(a, i + 1, Append(out, i - 1))
       ELSE filterFrom(a, i + 1, out)

(* the end of ApplyFilters had it left the row alone *)
clampRowKeep(row, n) == row

(* the end of ApplyFilters: SelectedRow against the new length *)
clampRow(row, n) ==
  IF n = 0 THEN 0
  ELSE IF row >= n THEN n - 1
  ELSE row

withFiltered(a, out) ==
  [a EXCEPT !.FilteredFits = out, !.SelectedRow = clampRow(a.SelectedRow, Len(out))]

ApplyFilters(a) == withFiltered(a, filterFrom(a, 1, <<>>))

(* ProviderPopupToggle had it not applied the filters *)
toggleProviderStale(a) ==
  IF a.ProviderCursor < Len(a.SelectedProviders)
  THEN [a EXCEPT !.SelectedProviders[a.ProviderCursor + 1] = ~@]
  ELSE a

(* the body of ProviderPopupToggle *)
toggleProvider(a) ==
  IF a.ProviderCursor < Len(a.SelectedProviders)
  THEN ApplyFilters([a EXCEPT !.SelectedProviders[a.ProviderCursor + 1] = ~@])
  ELSE a

NewApp(allFits) ==
  ApplyFilters(
    [SearchQuery |-> <<>>, CursorPosition |-> 0,
     AllFits |-> allFits,
     FilteredFits |-> [i \in 1..Len(allFits) |-> i - 1],
     Providers |-> sortStrings({allFits[i].Model.Provider : i \in 1..Len(allFits)}),
     SelectedProviders |->
       [j \in 1..Cardinality({allFits[i].Model.Provider : i \in 1..Len(allFits)}) |-> TRUE],
     FitFilter |-> FitFilterAll, SelectedRow |-> 0, ProviderCursor |-> 0])

SelectedFit(a) ==
  IF Len(a.FilteredFits) = 0 \/ a.SelectedRow < 0 \/ a.SelectedRow >= Len(a.FilteredFits)
  THEN Nil
  ELSE IF \/ a.FilteredFits[a.SelectedRow + 1] < 0
          \/ a.FilteredFits[a.SelectedRow + 1] >= Len(a.AllFits)
  THEN Nil
  ELSE Some(a.AllFits[a.FilteredFits[a.SelectedRow + 1] + 1])

TuiFit(name, provider, parameterCount, useCase, level) ==
  [Model |-> [Name |-> name, Provider |-> provider, ParameterCount |-> parameterCount,
              UseCase |-> useCase],
   FitLevel |-> level]

TuiFits ==
  <<TuiFit(<<"a","b">>, <<"b">>, <<"7","B">>, <<"c">>, FitPerfect),
    TuiFit(<<"b","a">>, <<"a">>, <<"1","B">>, <<"a">>, FitGood),
    TuiFit(<<"c">>, <<"b">>, <<"7","B">>, <<>>, FitTooTight),
    TuiFit(<<"a","a">>, <<"B">>, <<"3","B">>, <<"c">>, FitMarginal)>>

(* the lists handed to NewApp: none, one, one of each, and one longer than *)
(* a page                                                                  *)
TuiFitLists ==
  {<<>>, <<TuiFits[1]>>, TuiFits, <<TuiFits[3], TuiFits[3]>>,
   [i \in 1..LongListLen |-> TuiFits[(i % 4) + 1]]}

TypedRunes == {"a", "B", "7"}

InitTui ==
  /\ call \in {NewApp(l) : l \in TuiFitLists}
  /\ ret = Nil
  /\ goarch = "amd64"
  /\ system = Nil
  /\ NoAnalysis
  /\ NoAnalyzeAll
  /\ NoRanking
  /\ NoDetect

MoveUp ==
  /\ call' = IF call.SelectedRow > 0 THEN [call EXCEPT !.SelectedRow = @ - 1] ELSE call
  /\ UNCHANGED <<ret, system, goarch, fitVars, allVars, rankVars, probe>>

MoveDown ==
  /\ call' = IF Len(call.FilteredFits) > 0 /\ call.SelectedRow < Len(call.FilteredFits) - 1
             THEN [call EXCEPT !.SelectedRow = @ + 1] ELSE call
  /\ UNCHANGED <<ret, system, goarch, fitVars, allVars, rankVars, probe>>

PageUp ==
  /\ call' = [call EXCEPT !.SelectedRow = IF @ - PageSize < 0 THEN 0 ELSE @ - PageSize]
  /\ UNCHANGED <<ret, system, goarch, fitVars, allVars, rankVars, probe>>

PageDown ==
  /\ call' = IF Len(call.FilteredFits) = 0 THEN call
             ELSE [call EXCEPT !.SelectedRow =
                     IF @ + PageSize >= Len(call.FilteredFits)
                     THEN Len(call.FilteredFits) - 1 ELSE @ + PageSize]
  /\ UNCHANGED <<ret, system, goarch, fitVars, allVars, rankVars, probe>>

Home ==
  /\ call' = [call EXCEPT !.SelectedRow = 0]
  /\ UNCHANGED <<ret, system, goarch, fitVars, allVars, rankVars, probe>>

End ==
  /\ call' = IF Len(call.FilteredFits) > 0
             THEN [call EXCEPT !.SelectedRow = Len(call.FilteredFits) - 1] ELSE call
  /\ UNCHANGED <<ret, system, goarch, fitVars, allVars, rankVars, probe>>

CycleFitFilter ==
  /\ call' = ApplyFilters([call EXCEPT !.FitFilter = FitFilterNext(@)])
  /\ UNCHANGED <<ret, system, goarch, fitVars, allVars, rankVars, probe>>

SearchInput ==
  /\ Len(call.SearchQuery) < MaxQueryLen
  /\ \E r \in TypedRunes :
       call' = ApplyFilters(
                 [call EXCEPT
                    !.SearchQuery =
                       SubSeq(@, 1, Min(call.CursorPosition, Len(@))) \o <<r>>
                         \o SubSeq(@, Min(call.CursorPosition, Len(@)) + 1, Len(@)),
                    !.CursorPosition = Min(@, Len(call.SearchQuery)) + 1])
  /\ UNCHANGED <<ret, system, goarch, fitVars, allVars, rankVars, probe>>

SearchBackspace ==
  /\ call' = IF call.CursorPosition <= 0 \/ call.CursorPosition > Len(call.SearchQuery)
             THEN call
             ELSE ApplyFilters(
                    [call EXCEPT
                       !.SearchQuery = SubSeq(@, 1, call.CursorPosition - 1)
                                         \o SubSeq(@, call.CursorPosition + 1, Len(@)),
                       !.CursorPosition = @ - 1])
  /\ UNCHANGED <<ret, system, goarch, fitVars, allVars, rankVars, probe>>

SearchDelete ==
  /\ call' = IF call.CursorPosition < 0 \/ call.CursorPosition >= Len(call.SearchQuery)
             THEN call
             ELSE ApplyFilters(
                    [call EXCEPT
                       !.SearchQuery = SubSeq(@, 1, call.CursorPosition)
                                         \o SubSeq(@, call.CursorPosition + 2, Len(@))])
  /\ UNCHANGED <<ret, system, goarch, fitVars, allVars, rankVars, probe>>

ClearSearch ==
  /\ call' = ApplyFilters([call EXCEPT !.SearchQuery = <<>>, !.CursorPosition = 0])
  /\ UNCHANGED <<ret, system, goarch, fitVars, allVars, rankVars, probe>>

ProviderPopupUp ==
  /\ call' = IF call.ProviderCursor > 0 THEN [call EXCEPT !.ProviderCursor = @ - 1] ELSE call
  /\ UNCHANGED <<ret, system, goarch, fitVars, allVars, rankVars, probe>>

ProviderPopupDown ==
  /\ call' = IF call.ProviderCursor + 1 < Len(call.Providers)
             THEN [call EXCEPT !.ProviderCursor = @ + 1] ELSE call
  /\ UNCHANGED <<ret, system, goarch, fitVars, allVars, rankVars, probe>>

ProviderPopupToggle ==
  /\ call' = toggleProvider(call)
  /\ UNCHANGED <<ret, system, goarch, fitVars, allVars, rankVars, probe>>

ProviderPopupSelectAll ==
  /\ call' = ApplyFilters(
               [call EXCEPT !.SelectedProviders =
                  [j \in 1..Len(@) |-> ~(\A k \in 1..Len(@) : @[k])]])
  /\ UNCHANGED <<ret, system, goarch, fitVars, allVars, rankVars, probe>>

NextTui ==
  \/ MoveUp
  \/ MoveDown
  \/ PageUp
  \/ PageDown
  \/ Home
  \/ End
  \/ CycleFitFilter
  \/ SearchInput
  \/ SearchBackspace
  \/ SearchDelete
  \/ ClearSearch
  \/ ProviderPopupUp
  \/ ProviderPopupDown
  \/ ProviderPopupToggle
  \/ ProviderPopupSelectAll

SpecTui == InitTui /\ [][NextTui]_vars

(* properties of the App (SpecTui) *)

(* C28: in every reachable state SelectedRow is 0 when the filtered list   *)
(* is empty and otherwise 0 <= SelectedRow < len(FilteredFits), and        *)
(* SelectedFit returns nil exactly when the filtered list is empty.        *)
C28_SelectedRowInRange ==
  /\ Len(call.FilteredFits) = 0 => call.SelectedRow = 0
  /\ Len(call.FilteredFits) > 0 =>
       (0 <= call.SelectedRow /\ call.SelectedRow < Len(call.FilteredFits))
  /\ (SelectedFit(call) = Nil) <=> (Len(call.FilteredFits) = 0)

(* the last row of a list longer than a page was selected and a filter     *)
(* then shortened the list, so the row was clamped to the new last row     *)
C28_Witness ==
  /\ Len(call.AllFits) = LongListLen
  /\ call.FitFilter = FitFilterMarginal
  /\ Len(call.FilteredFits) = LongListLen \div 4
  /\ call.SelectedRow = Len(call.FilteredFits) - 1
  /\ SelectedFit(call) # Nil

(* the model of an entry matches the search query *)
QueryMatches(m) ==
  \/ call.SearchQuery = <<>>
  \/ \E field \in {m.Name, m.Provider, m.ParameterCount, m.UseCase} :
       Contains(ToLower(field), ToLower(call.SearchQuery))

(* the provider of an entry is selected in the popup *)
ProviderSelected(m) ==
  \E j \in 1..Len(call.Providers) :
     call.Providers[j] = m.Provider /\ call.SelectedProviders[j]

(* the fit level of an entry passes the fit filter *)
PassesFitFilter(level) ==
  \/ call.FitFilter = FitFilterAll
  \/ call.FitFilter = FitFilterRunnable /\ level # FitTooTight
  \/ call.FitFilter \in {FitPerfect, FitGood, FitFilterMarginal} /\ level = call.FitFilter

(* the indices, from 0, of the entries the three filters let through *)
VisibleIndices ==
  {i - 1 : i \in {k \in 1..Len(call.AllFits) :
                    /\ QueryMatches(call.AllFits[k].Model)
                    /\ ProviderSelected(call.AllFits[k].Model)
                    /\ PassesFitFilter(call.AllFits[k].FitLevel)}}

(* C29: in every reachable state FilteredFits is the increasing list of    *)
(* the indices of AllFits whose model matches the search query, whose      *)
(* provider is selected and whose fit level passes the fit filter.         *)
C29_FilteredFitsFresh ==
  /\ \A i, j \in 1..Len(call.FilteredFits) :
       i < j => call.FilteredFits[i] < call.FilteredFits[j]
  /\ {call.FilteredFits[i] : i \in 1..Len(call.FilteredFits)} = VisibleIndices

(* a query is typed, a provider is deselected and a fit filter is set, and *)
(* the list shows some entries but not all                                 *)
C29_Witness ==
  /\ call.SearchQuery # <<>>
  /\ \E j \in 1..Len(call.SelectedProviders) : ~call.SelectedProviders[j]
  /\ call.FitFilter = FitFilterRunnable
  /\ Len(call.FilteredFits) > 0
  /\ Len(call.FilteredFits) < Len(call.AllFits)
  /\ Len(call.AllFits) = 4

====
